---- MODULE Spec2Model ----
(***************************************************************************)
(* Model of the mock trading engine (models/TradingEngine.js): ledger,     *)
(* position book, pending limit orders, mark-to-market and liquidation.    *)
(*                                                                         *)
(* JavaScript numbers are modelled as exact rationals [n, d] in lowest     *)
(* terms (d > 0), so that equal values are equal records.  The only        *)
(* division whose divisor can be zero or negative on the modelled inputs   *)
(* is the maintenance-margin ratio; it is modelled with the IEEE outcomes  *)
(* (x/0 = +Infinity for x > 0, 0/0 = NaN, any comparison with NaN false).  *)
(* uuidv4() is modelled as a counter, i.e. as never repeating.             *)
(* Position/order fields that no engine computation reads (symbol, stop    *)
(* loss, take profit, timestamps) are left out.                            *)
(***************************************************************************)
EXTENDS Integers, Sequences, FiniteSets, TLC

\* ------------------------------------------------------------------------
\* Exact rational arithmetic
\* ------------------------------------------------------------------------
Abs(x) == IF x < 0 THEN -x ELSE x

RECURSIVE GCD(_, _)
GCD(a, b) == IF b = 0 THEN a ELSE GCD(b, a % b)

\* n/d with the common factor g taken out and the sign in the numerator
Reduce(n, d, g) ==
    IF d < 0 THEN [n |-> (-n) \div g, d |-> (-d) \div g]
    ELSE [n |-> n \div g, d |-> d \div g]

Rat(n, d) == Reduce(n, d, GCD(Abs(n), Abs(d)))

Num(k) == [n |-> k, d |-> 1]
Zero == Num(0)

\* Sums go through the least common denominator and products are
\* cross-reduced, so that intermediate values stay small.
AddOver(a, b, g) ==
    Rat(a.n * (b.d \div g) + b.n * (a.d \div g), (a.d \div g) * b.d)

Add(a, b) == AddOver(a, b, GCD(a.d, b.d))

Neg(a) == [n |-> -a.n, d |-> a.d]
Sub(a, b) == Add(a, Neg(b))

MulOver(a, b, g1, g2) ==
    [n |-> (a.n \div g1) * (b.n \div g2), d |-> (a.d \div g2) * (b.d \div g1)]

Mul(a, b) == MulOver(a, b, GCD(Abs(a.n), b.d), GCD(Abs(b.n), a.d))

Inv(b) == IF b.n < 0 THEN [n |-> -b.d, d |-> -b.n] ELSE [n |-> b.d, d |-> b.n]
Div(a, b) == Mul(a, Inv(b))

\* Comparison by integer part first and fractional part second, which
\* needs no common denominator.
Floor(a) == a.n \div a.d
Frac(a) == a.n % a.d
Lt(a, b) ==
    IF Floor(a) # Floor(b) THEN Floor(a) < Floor(b)
    ELSE Frac(a) * b.d < Frac(b) * a.d
Le(a, b) == ~Lt(b, a)

\* ------------------------------------------------------------------------
\* Configuration (config/index.js, trading section) and engine constants
\* ------------------------------------------------------------------------
initialBalance == 10000
maxLeverage == 100
defaultLeverage == 100
liquidationThreshold == Rat(8, 10)
makerFee == Rat(2, 10000)
takerFee == Rat(6, 10000)
maintenanceMarginRate == Rat(5, 1000)
InitialPrice == 50000

\* ------------------------------------------------------------------------
\* Bounds and input sets
\* ------------------------------------------------------------------------
MaxOrders == 2

UserIds == {"u1", "u2"}
\* the ids that authenticate (and are provisioned) in Spec
Provisioned == {"u1"}
Sides == {"Buy", "Sell"}
OrderTypes == {"Market", "Limit"}
Qtys == {Num(1), Num(2)}
Leverages == {10, 100, 200}
LimitPrices == {Num(40000)}
\* For a 10x long of 1 opened at 40000 (cash 9976, maintenance margin 20):
\* 30049 is exactly on the liquidation threshold (equity 25), 30040 is
\* above it (equity 16).  For a long opened at 50000 or 51000 a tick to
\* 40000 or below gaps to negative equity.
TickPrices == {Num(51000), Num(40000), Num(30049), Num(30040)}
NoQty == Zero
CloseQtys == {NoQty, Num(1), Num(3)}

VARIABLES
    users,          \* this.users: userId -> [balance, tradeHistory]
    userKeys,       \* insertion order of the users/positions/orders Maps
    positions,      \* this.positions: userId -> array of position objects
    orders,         \* this.orders: userId -> array of (references to) orders
    orderObjs,      \* the order objects, by orderId
    currentPrice,   \* this.currentPrice
    uuid,           \* number of uuidv4() calls made so far
    emitted,        \* events emitted by the last operation, in order
    result,         \* outcome of the last operation (return value / error)
    clients,        \* wsManager.clients: clientId -> session record
    clientKeys,     \* insertion order of the clients Map
    rateLimits,     \* wsManager.rateLimits: clientId -> [messages, resetTime]
    now,            \* Date.now(), in milliseconds
    authWaiting,    \* handleAuth calls suspended at `await initUser(..)`
    sent,           \* messages written to the sockets by the last step
    inbound,        \* the client message or queue entry handled by the last step
    listening,      \* the HTTP server accepts connections (server.close() not called)
    closePending,   \* callbacks passed to server.close() and not yet called
    exitTimers,     \* deadlines of the pending forced-exit timers
    exitCode,       \* "" while the process runs, else the code given to process.exit
    broadcastQueue, \* server.js broadcastQueue: entries [channel, data]
    isBroadcasting, \* server.js isBroadcasting
    drainTimers,    \* pending setTimeout(processBroadcastQueue, 10) callbacks
    handed,         \* entries passed to wsManager.broadcast by the last step
    bybit           \* the BybitService: its fields, sockets and timers

engineVars == <<users, userKeys, positions, orders, orderObjs, currentPrice,
                uuid>>

shutdownVars == <<listening, closePending, exitTimers, exitCode>>

vars == <<users, userKeys, positions, orders, orderObjs, currentPrice, uuid,
          emitted, result, clients, clientKeys, rateLimits, now, authWaiting,
          sent, inbound, listening, closePending, exitTimers, exitCode,
          broadcastQueue, isBroadcasting, drainTimers, handed, bybit>>

\* ------------------------------------------------------------------------
\* Helpers for Maps and arrays
\* ------------------------------------------------------------------------
Put(f, k, v) == [x \in (DOMAIN f) \cup {k} |-> IF x = k THEN v ELSE f[x]]

\* Array.prototype.splice(index, 1) with a 1-based index
Splice(s, i) == [j \in 1..(Len(s) - 1) |-> IF j < i THEN s[j] ELSE s[j + 1]]

\* Array.prototype.indexOf / findIndex, 1-based, 0 when absent
RECURSIVE IndexFrom(_, _, _)
IndexFrom(s, x, i) ==
    IF i > Len(s) THEN 0
    ELSE IF s[i] = x THEN i
    ELSE IndexFrom(s, x, i + 1)

IndexOf(s, x) == IndexFrom(s, x, 1)

RECURSIVE SumMargin(_, _)
SumMargin(ps, i) ==
    IF i > Len(ps) THEN Zero ELSE Add(ps[i].marginUsed, SumMargin(ps, i + 1))

RECURSIVE SumUnrealized(_, _)
SumUnrealized(ps, i) ==
    IF i > Len(ps) THEN Zero ELSE Add(ps[i].unrealizedPnl, SumUnrealized(ps, i + 1))

\* The engine state threaded through the methods
Engine ==
    [users |-> users, userKeys |-> userKeys, positions |-> positions,
     orders |-> orders, orderObjs |-> orderObjs, currentPrice |-> currentPrice,
     uuid |-> uuid, emitted |-> <<>>, deferred |-> <<>>]

Event(type, userId, id) == [type |-> type, userId |-> userId, id |-> id]

Emit(E, ev) == [E EXCEPT !.emitted = Append(@, ev)]

\* ------------------------------------------------------------------------
\* TradingEngine.initUser
\* ------------------------------------------------------------------------
NewUser ==
    [balance |-> [USDT |-> Num(initialBalance),
                  availableBalance |-> Num(initialBalance),
                  marginUsed |-> Zero,
                  unrealizedPnl |-> Zero,
                  realizedPnl |-> Zero,
                  totalEquity |-> Num(initialBalance)],
     tradeHistory |-> <<>>]

initUser(E, userId) ==
    IF userId \in DOMAIN E.users THEN E
    ELSE [E EXCEPT !.users = Put(@, userId, NewUser),
                   !.userKeys = Append(@, userId),
                   !.positions = Put(@, userId, <<>>),
                   !.orders = Put(@, userId, <<>>)]

\* ------------------------------------------------------------------------
\* TradingEngine.calculatePnl
\* ------------------------------------------------------------------------
\* PnL on the whole position, whatever quantity is closed
calculatePnlWhole(position, exitPrice, qty) ==
    IF position.side = "Buy"
    THEN Mul(Sub(exitPrice, position.avgPrice), position.qty)
    ELSE Mul(Sub(position.avgPrice, exitPrice), position.qty)

calculatePnl(position, exitPrice, qty) ==
    LET quantity == IF qty = NoQty THEN position.qty ELSE qty
    IN  IF position.side = "Buy"
        THEN Mul(Sub(exitPrice, position.avgPrice), quantity)
        ELSE Mul(Sub(position.avgPrice, exitPrice), quantity)

\* ------------------------------------------------------------------------
\* TradingEngine.executeOrder
\* ------------------------------------------------------------------------
\* fee rate charging the taker rate on every order type
FeeRateTaker(orderType) == takerFee

FeeRate(orderType) == IF orderType = "Market" THEN takerFee ELSE makerFee

\* userPositions.find(p => p.symbol === 'BTCUSDT'): every position carries
\* that symbol, so the first element is found; 0 stands for undefined.
FindPosition(userPositions) == IF Len(userPositions) > 0 THEN 1 ELSE 0

NewPosition(order, positionId, markPrice) ==
    [positionId |-> positionId,
     userId |-> order.userId,
     side |-> order.side,
     qty |-> order.qty,
     avgPrice |-> order.price,
     markPrice |-> markPrice,
     leverage |-> order.leverage,
     unrealizedPnl |-> Zero,
     realizedPnl |-> Zero,
     marginUsed |-> Zero,
     maintenanceMargin |-> Zero]

\* a merge that takes the price of the last fill as the average price
MergePositionLastPrice(position, order) ==
    [position EXCEPT !.qty = Add(position.qty, order.qty),
                     !.avgPrice = order.price,
                     !.leverage = order.leverage]

\* Same direction: add to the position (lines 156-164)
MergePosition(position, order) ==
    LET totalQty == Add(position.qty, order.qty)
        totalValue == Add(Mul(position.qty, position.avgPrice),
                          Mul(order.qty, order.price))
    IN  [position EXCEPT !.qty = totalQty,
                         !.avgPrice = Div(totalValue, totalQty),
                         !.leverage = order.leverage]

\* Partial close (lines 167-175)
ReducePosition(position, order) ==
    [position EXCEPT !.qty = Sub(@, order.qty),
                     !.realizedPnl = Add(@, calculatePnl(position, order.price, order.qty))]

\* a flip that keeps the average price of the closed position
FlipPositionOldPrice(position, order) ==
    [position EXCEPT !.side = order.side,
                     !.qty = Sub(order.qty, position.qty),
                     !.leverage = order.leverage,
                     !.realizedPnl = Zero,
                     !.unrealizedPnl = Zero]

\* Position flip (lines 176-191): the same object is reused
FlipPosition(position, order) ==
    [position EXCEPT !.side = order.side,
                     !.qty = Sub(order.qty, position.qty),
                     !.avgPrice = order.price,
                     !.leverage = order.leverage,
                     !.realizedPnl = Zero,
                     !.unrealizedPnl = Zero]

\* Netting that opens a second position for an opposite-side order
\* instead of reducing the existing one
NettingHedged(userPositions, order, markPrice, nextId) ==
    IF /\ Len(userPositions) > 0
       /\ userPositions[1].side # order.side
       /\ ~order.reduceOnly
    THEN [ps |-> Append(userPositions, NewPosition(order, nextId, markPrice)),
          pos |-> Len(userPositions) + 1, pnl |-> Zero, ids |-> 1]
    ELSE IF Len(userPositions) > 0
    THEN [ps |-> [userPositions EXCEPT ![1] = MergePosition(userPositions[1], order)],
          pos |-> 1, pnl |-> Zero, ids |-> 0]
    ELSE [ps |-> Append(userPositions, NewPosition(order, nextId, markPrice)),
          pos |-> 1, pnl |-> Zero, ids |-> 1]

\* The netting decision of executeOrder (lines 151-226).  ps is the
\* resulting positions array, pos the index of `position` in it (0 when
\* `position` is null), pnl the realized PnL credited to the user, ids the
\* number of uuidv4() calls made.
Netting(userPositions, order, markPrice, nextId) ==
    LET found == FindPosition(userPositions)
    IN  IF found > 0
        THEN LET position == userPositions[found]
             IN  IF position.side = order.side /\ ~order.reduceOnly
                 THEN [ps |-> [userPositions EXCEPT ![found] = MergePosition(position, order)],
                       pos |-> found, pnl |-> Zero, ids |-> 0]
                 ELSE IF Lt(order.qty, position.qty)
                 THEN [ps |-> [userPositions EXCEPT ![found] = ReducePosition(position, order)],
                       pos |-> found,
                       pnl |-> calculatePnl(position, order.price, order.qty), ids |-> 0]
                 ELSE IF Lt(position.qty, order.qty) /\ ~order.reduceOnly
                 THEN [ps |-> [userPositions EXCEPT ![found] = FlipPosition(position, order)],
                       pos |-> found,
                       pnl |-> calculatePnl(position, order.price, position.qty), ids |-> 0]
                 ELSE [ps |-> Splice(userPositions, IndexOf(userPositions, position)),
                       pos |-> 0,
                       pnl |-> calculatePnl(position, order.price, position.qty), ids |-> 0]
        ELSE IF ~order.reduceOnly
        THEN [ps |-> Append(userPositions, NewPosition(order, nextId, markPrice)),
              pos |-> Len(userPositions) + 1, pnl |-> Zero, ids |-> 1]
        ELSE [ps |-> userPositions, pos |-> 0, pnl |-> Zero, ids |-> 0]

\* Margin update (lines 228-241): only when `position` is not null
SetMargin(position, marginUsed) ==
    [position EXCEPT !.marginUsed = marginUsed,
                     !.maintenanceMargin = Mul(marginUsed, maintenanceMarginRate)]

UpdateMargin(ps, pos) ==
    IF pos = 0 THEN ps
    ELSE [ps EXCEPT ![pos] =
            SetMargin(@, Div(Mul(@.qty, @.avgPrice), Num(@.leverage)))]

\* Balance after the fill (lines 174-197, 233-245)
\* user.balance.realizedPnl += pnl; user.balance.USDT += pnl
Credit(balance, pnl) ==
    [balance EXCEPT !.realizedPnl = Add(@, pnl), !.USDT = Add(@, pnl)]

\* lines 234-240, run only when `position` is not null
RefreshMargin(balance, totalMarginUsed) ==
    [balance EXCEPT !.marginUsed = totalMarginUsed,
                    !.availableBalance = Sub(balance.USDT, totalMarginUsed)]

\* lines 244-245
DebitFee(balance, fee) ==
    [balance EXCEPT !.USDT = Sub(@, fee), !.availableBalance = Sub(@, fee)]

UpdateBalance(balance, ps, pos, pnl, fee) ==
    IF pos = 0 THEN DebitFee(Credit(balance, pnl), fee)
    ELSE DebitFee(RefreshMargin(Credit(balance, pnl), SumMargin(ps, 1)), fee)

Trade(tradeId, order) ==
    [tradeId |-> tradeId, orderId |-> order.orderId, side |-> order.side,
     price |-> order.price, qty |-> order.qty, fee |-> order.fee,
     realizedPnl |-> Zero]

\* lines 144-149
FilledOrder(order) ==
    [order EXCEPT !.fee = Mul(Mul(order.qty, order.price), FeeRate(order.orderType)),
                  !.filledQty = order.qty,
                  !.avgPrice = order.price,
                  !.status = "Filled"]

\* lines 228-261, given the filled order, the positions array ps after the
\* netting and the margin update, and the index pos of `position` in it
RecordFill(E, order, ps, pos, pnl, tradeId) ==
    Emit(Emit([E EXCEPT !.orderObjs[order.orderId] = order,
                        !.positions[order.userId] = ps,
                        !.users[order.userId].balance =
                            UpdateBalance(@, ps, pos, pnl, order.fee),
                        !.users[order.userId].tradeHistory =
                            Append(@, Trade(tradeId, order)),
                        !.uuid = tradeId],
              Event("orderFilled", order.userId, order.orderId)),
         Event("positionUpdate", order.userId,
               IF pos = 0 THEN 0 ELSE ps[pos].positionId))

SettleFill(E, order, net) ==
    RecordFill(E, order, UpdateMargin(net.ps, net.pos), net.pos, net.pnl,
               E.uuid + net.ids + 1)

FillOrder(E, order) ==
    SettleFill(E, order,
               Netting(E.positions[order.userId], order, E.currentPrice, E.uuid + 1))

\* an executeOrder that has not run yet when its caller goes on
executeOrderSuspended(E, orderId) == E

executeOrder(E, orderId) == FillOrder(E, FilledOrder(E.orderObjs[orderId]))

\* ------------------------------------------------------------------------
\* TradingEngine.createOrder.  Returns [E, error, ret]: the engine state, the
\* message of the thrown Error ("" when none) and the returned orderId.
\* ------------------------------------------------------------------------
ErrUserNotFound == "User not found"
ErrLeverage == "Maximum leverage is 100x"
ErrInsufficient == "Insufficient balance"
ErrPositionNotFound == "Position not found"
ErrCloseExceeds == "Close quantity exceeds position size"
ErrOrderNotFound == "Order not found"
ErrCannotCancel == "Cannot cancel filled order"
ErrTypeError == "TypeError"

Failed(E, error) == [E |-> E, error |-> error, ret |-> 0]
Returned(E, ret) == [E |-> E, error |-> "", ret |-> ret]

NewOrder(orderId, userId, d, executionPrice) ==
    [orderId |-> orderId,
     userId |-> userId,
     side |-> d.side,
     orderType |-> d.orderType,
     qty |-> d.qty,
     price |-> executionPrice,
     leverage |-> d.leverage,
     reduceOnly |-> d.reduceOnly,
     status |-> IF d.orderType = "Market" THEN "Filled" ELSE "New",
     filledQty |-> Zero,
     avgPrice |-> Zero,
     fee |-> Zero]

\* requiredMargin + fee (lines 94-96)
RequiredFunds(orderValue, leverage, orderType) ==
    Add(Div(orderValue, Num(leverage)), Mul(orderValue, FeeRate(orderType)))

\* lines 103-135: the order object is created, then executed (Market) or
\* added to the pending orders (Limit)
SubmitOrder(E, order) ==
    IF order.orderType = "Market"
    THEN Returned(executeOrder([E EXCEPT !.orderObjs = Put(@, order.orderId, order),
                                         !.uuid = order.orderId],
                               order.orderId),
                  order.orderId)
    ELSE Returned(Emit([E EXCEPT !.orderObjs = Put(@, order.orderId, order),
                                 !.uuid = order.orderId,
                                 !.orders[order.userId] = Append(@, order.orderId)],
                       Event("orderCreated", order.userId, order.orderId)),
                  order.orderId)

\* lines 94-135, given the execution price of line 91
PlaceOrder(E, userId, d, executionPrice) ==
    IF ~d.reduceOnly /\ Lt(E.users[userId].balance.availableBalance,
                           RequiredFunds(Mul(d.qty, executionPrice), d.leverage,
                                         d.orderType))
    THEN Failed(E, ErrInsufficient)
    ELSE SubmitOrder(E, NewOrder(E.uuid + 1, userId, d, executionPrice))

\* createOrder without the leverage check
createOrderUncapped(E, userId, d) ==
    IF userId \notin DOMAIN E.users THEN Failed(E, ErrUserNotFound)
    ELSE PlaceOrder(E, userId, d,
                    IF d.orderType = "Market" THEN E.currentPrice ELSE d.price)

\* createOrder taking the execution price of a Market order from the payload
createOrderPayloadPrice(E, userId, d) ==
    IF userId \notin DOMAIN E.users THEN Failed(E, ErrUserNotFound)
    ELSE IF d.leverage > maxLeverage THEN Failed(E, ErrLeverage)
    ELSE PlaceOrder(E, userId, d, d.price)

createOrder(E, userId, d) ==
    IF userId \notin DOMAIN E.users THEN Failed(E, ErrUserNotFound)
    ELSE IF d.leverage > maxLeverage THEN Failed(E, ErrLeverage)
    ELSE
    PlaceOrder(E, userId, d,
               IF d.orderType = "Market" THEN E.currentPrice ELSE d.price)

\* ------------------------------------------------------------------------
\* TradingEngine.closePosition
\* ------------------------------------------------------------------------
RECURSIVE FindPositionId(_, _, _)
FindPositionId(ps, positionId, i) ==
    IF i > Len(ps) THEN 0
    ELSE IF ps[i].positionId = positionId THEN i
    ELSE FindPositionId(ps, positionId, i + 1)

\* For a userId without an entry in this.positions, userPositions is
\* undefined and userPositions.find throws a TypeError.
closePosition(E, userId, positionId, closeQty) ==
    IF userId \notin DOMAIN E.positions THEN Failed(E, ErrTypeError)
    ELSE
    LET userPositions == E.positions[userId]
        i == FindPositionId(userPositions, positionId, 1)
    IN  IF i = 0 THEN Failed(E, ErrPositionNotFound)
        ELSE
        LET position == userPositions[i]
            qtyToClose == IF closeQty = NoQty THEN position.qty ELSE closeQty
        IN  IF Lt(position.qty, qtyToClose) THEN Failed(E, ErrCloseExceeds)
            ELSE createOrder(E, userId,
                     [side |-> IF position.side = "Buy" THEN "Sell" ELSE "Buy",
                      orderType |-> "Market",
                      qty |-> qtyToClose,
                      price |-> Zero,
                      leverage |-> position.leverage,
                      reduceOnly |-> TRUE])

\* ------------------------------------------------------------------------
\* TradingEngine.checkLiquidation
\* ------------------------------------------------------------------------
\* JavaScript `a / b >= t` for a >= 0 and t > 0: a/0 is +Infinity (a > 0)
\* or NaN (a = 0, every comparison false); otherwise the comparison is
\* evaluated after multiplying out by b / t, which flips it when b < 0.
QuotientAtLeast(a, b, t) ==
    IF b.n = 0 THEN a.n > 0
    ELSE IF b.n > 0 THEN Le(b, Div(a, t))
    ELSE Le(Div(a, t), b)

\* a strict comparison in place of `>=`
ShouldLiquidateStrict(maintenanceMargin, equity) ==
    /\ QuotientAtLeast(maintenanceMargin, equity, liquidationThreshold)
    /\ Mul(liquidationThreshold, equity) # maintenanceMargin

ShouldLiquidate(maintenanceMargin, equity) ==
    QuotientAtLeast(maintenanceMargin, equity, liquidationThreshold)

\* The 'liquidation' event is emitted after `await this.closePosition(..)`,
\* i.e. in a microtask that runs once the synchronous price update is over;
\* it is collected in E.deferred.  A rejected closePosition emits nothing.
\* lines 343-350, given the outcome r of the awaited closePosition
EmitLiquidation(r, position) ==
    IF r.error = ""
    THEN [r.E EXCEPT !.deferred = Append(@,
             [type |-> "liquidation", userId |-> position.userId,
              id |-> position.positionId,
              loss |-> position.unrealizedPnl])]
    ELSE r.E

\* a liquidation that reports the position without closing it
checkLiquidationNoClose(E, userId, position) ==
    IF ShouldLiquidate(position.maintenanceMargin,
                       Add(E.users[userId].balance.USDT, position.unrealizedPnl))
    THEN EmitLiquidation(Returned(E, 0), position)
    ELSE E

checkLiquidation(E, userId, position) ==
    IF ShouldLiquidate(position.maintenanceMargin,
                       Add(E.users[userId].balance.USDT, position.unrealizedPnl))
    THEN EmitLiquidation(closePosition(E, userId, position.positionId, NoQty),
                         position)
    ELSE E

\* ------------------------------------------------------------------------
\* TradingEngine.updateAllPositionsPnL
\* ------------------------------------------------------------------------
\* for (const position of userPositions): the array iterator re-reads the
\* live array length at every step
RECURSIVE MarkPositions(_, _, _)
\* lines 309-310
MarkPosition(position, price) ==
    [position EXCEPT !.markPrice = price,
                     !.unrealizedPnl = calculatePnl(position, price, NoQty)]

\* lines 309-313 for the position at index i, given its marked value
CheckMarked(E, userId, i, marked) ==
    checkLiquidation([E EXCEPT !.positions[userId][i] = marked], userId, marked)

MarkPositions(E, userId, i) ==
    IF i > Len(E.positions[userId]) THEN E
    ELSE MarkPositions(
             CheckMarked(E, userId, i,
                         MarkPosition(E.positions[userId][i], E.currentPrice)),
             userId, i + 1)

\* lines 323-325
SetEquity(balance, totalUnrealizedPnl) ==
    [balance EXCEPT !.unrealizedPnl = totalUnrealizedPnl,
                    !.totalEquity = Add(balance.USDT, totalUnrealizedPnl)]

RefreshEquity(E, userId) ==
    IF userId \notin DOMAIN E.users THEN E
    ELSE Emit([E EXCEPT !.users[userId].balance =
                   SetEquity(@, SumUnrealized(E.positions[userId], 1))],
              Event("balanceUpdate", userId, 0))

RECURSIVE MarkUsers(_, _)
MarkUsers(E, k) ==
    IF k > Len(E.userKeys) THEN E
    ELSE MarkUsers(RefreshEquity(MarkPositions(E, E.userKeys[k], 1), E.userKeys[k]), k + 1)

updateAllPositionsPnL(E) == MarkUsers(E, 1)

\* ------------------------------------------------------------------------
\* TradingEngine.checkPendingOrders
\* ------------------------------------------------------------------------
\* both comparisons turned round
ShouldFillCrossed(order, price) ==
    \/ order.side = "Buy" /\ Le(order.price, price)
    \/ order.side = "Sell" /\ Le(price, order.price)

ShouldFill(order, price) ==
    \/ order.side = "Buy" /\ Le(price, order.price)
    \/ order.side = "Sell" /\ Le(order.price, price)

\* the scan without the status test and without the removal of the filled
\* order from the pending array
RECURSIVE ScanOrdersRefill(_, _, _)
ScanOrdersRefill(E, userId, i) ==
    IF i > Len(E.orders[userId]) THEN E
    ELSE IF ShouldFill(E.orderObjs[E.orders[userId][i]], E.currentPrice)
    THEN ScanOrdersRefill(executeOrder(E, E.orders[userId][i]), userId, i + 1)
    ELSE ScanOrdersRefill(E, userId, i + 1)

\* a scan that fills the triggered orders and leaves them in the array
RECURSIVE ScanOrdersKeeping(_, _, _)
ScanOrdersKeeping(E, userId, i) ==
    IF i > Len(E.orders[userId]) THEN E
    ELSE IF E.orderObjs[E.orders[userId][i]].status = "New"
            /\ ShouldFill(E.orderObjs[E.orders[userId][i]], E.currentPrice)
    THEN ScanOrdersKeeping(executeOrder(E, E.orders[userId][i]), userId, i + 1)
    ELSE ScanOrdersKeeping(E, userId, i + 1)

\* for (const order of userOrders) with a splice inside the loop: the
\* iterator keeps its index, so the element that slides into the freed slot
\* is not visited.
RECURSIVE ScanOrders(_, _, _)
ScanOrders(E, userId, i) ==
    IF i > Len(E.orders[userId]) THEN E
    ELSE LET orderId == E.orders[userId][i]
             order == E.orderObjs[orderId]
         IN  IF order.status # "New" THEN ScanOrders(E, userId, i + 1)
             ELSE IF ShouldFill(order, E.currentPrice)
             THEN ScanOrders([executeOrder(E, orderId) EXCEPT !.orders[userId] =
                                  Splice(@, IndexOf(@, orderId))],
                             userId, i + 1)
             ELSE ScanOrders(E, userId, i + 1)

RECURSIVE ScanUsers(_, _)
ScanUsers(E, k) ==
    IF k > Len(E.userKeys) THEN E
    ELSE ScanUsers(ScanOrders(E, E.userKeys[k], 1), k + 1)

checkPendingOrders(E) == ScanUsers(E, 1)

\* ------------------------------------------------------------------------
\* TradingEngine.updateCurrentPrice
\* ------------------------------------------------------------------------
\* the microtasks queued during the synchronous update run after it
RunDeferred(E) == [E EXCEPT !.emitted = @ \o E.deferred, !.deferred = <<>>]

updateCurrentPrice(E, price) ==
    RunDeferred(checkPendingOrders(updateAllPositionsPnL(
        Emit([E EXCEPT !.currentPrice = price], Event("priceUpdate", "", 0)))))

\* ------------------------------------------------------------------------
\* TradingEngine.cancelOrder
\* ------------------------------------------------------------------------
RECURSIVE FindOrderId(_, _, _)
FindOrderId(userOrders, orderId, i) ==
    IF i > Len(userOrders) THEN 0
    ELSE IF userOrders[i] = orderId THEN i
    ELSE FindOrderId(userOrders, orderId, i + 1)

\* cancelOrder without the splice of the pending array
cancelOrderNoSplice(E, userId, orderId) ==
    IF userId \notin DOMAIN E.orders THEN Failed(E, ErrUserNotFound)
    ELSE
    LET orderIndex == FindOrderId(E.orders[userId], orderId, 1)
    IN  IF orderIndex = 0 THEN Failed(E, ErrOrderNotFound)
        ELSE IF E.orderObjs[orderId].status # "New" THEN Failed(E, ErrCannotCancel)
        ELSE Returned(Emit([E EXCEPT !.orderObjs[orderId].status = "Cancelled"],
                           Event("orderCancelled", userId, orderId)),
                      orderId)

\* a cancel that looks for the order in every user's pending array
cancelOrderAnyOwner(E, userId, orderId) ==
    IF userId \notin DOMAIN E.orders THEN Failed(E, ErrUserNotFound)
    ELSE IF orderId \notin DOMAIN E.orderObjs
            \/ E.orderObjs[orderId].status # "New" THEN Failed(E, ErrOrderNotFound)
    ELSE Returned(Emit([E EXCEPT
                          !.orderObjs[orderId].status = "Cancelled",
                          !.orders[E.orderObjs[orderId].userId] =
                              Splice(@, FindOrderId(@, orderId, 1))],
                       Event("orderCancelled", userId, orderId)),
                  orderId)

cancelOrder(E, userId, orderId) ==
    IF userId \notin DOMAIN E.orders THEN Failed(E, ErrUserNotFound)
    ELSE
    LET orderIndex == FindOrderId(E.orders[userId], orderId, 1)
    IN  IF orderIndex = 0 THEN Failed(E, ErrOrderNotFound)
        ELSE IF E.orderObjs[orderId].status # "New" THEN Failed(E, ErrCannotCancel)
        ELSE Returned(Emit([E EXCEPT !.orderObjs[orderId].status = "Cancelled",
                                     !.orders[userId] = Splice(@, orderIndex)],
                           Event("orderCancelled", userId, orderId)),
                      orderId)

\* ------------------------------------------------------------------------
\* TradingEngine.calculateWinRate
\* ------------------------------------------------------------------------
\* user.tradeHistory.filter(t => t.realizedPnl > 0).length
Wins(tradeHistory) ==
    Cardinality({i \in 1..Len(tradeHistory) : Lt(Zero, tradeHistory[i].realizedPnl)})

calculateWinRate(E, userId) ==
    IF userId \notin DOMAIN E.users \/ Len(E.users[userId].tradeHistory) = 0
    THEN Zero
    ELSE Mul(Rat(Wins(E.users[userId].tradeHistory),
                 Len(E.users[userId].tradeHistory)),
             Num(100))

\* ------------------------------------------------------------------------
\* WebSocketManager (websocket/wsManager.js)
\* ------------------------------------------------------------------------
messageRateLimit == 100
\* checkRateLimit: resetTime = now + 1000
RateWindow == 1000
\* startHeartbeat: Date.now() - client.lastActivity > 300000
InactivityWindow == 300000

\* null: the userId of a session before auth, an absent payload.userId
NoUser == ""

\* the session record created by the 'connection' handler
NewClient(t) ==
    [userId |-> NoUser, authenticated |-> FALSE, subscriptions |-> {},
     readyState |-> "OPEN", lastActivity |-> t]

\* a message written to the socket of session `to`; info is the error code
\* of an error, the user id of an auth_success or of a per-user event, the
\* channel of a broadcast, the error message of a failed command
Message(to, type, info) == [to |-> to, type |-> type, info |-> info]

IsOpen(cs, clientId) ==
    clientId \in DOMAIN cs /\ cs[clientId].readyState = "OPEN"

sendToClient(cs, clientId, type, info) ==
    IF IsOpen(cs, clientId) THEN <<Message(clientId, type, info)>> ELSE <<>>

\* for (const [clientId, client] of this.clients), from the k-th entry on
\* a delivery loop that writes to every open session, whoever its user is
RECURSIVE SendToUserFromAnyone(_, _, _, _, _)
SendToUserFromAnyone(cs, keys, userId, type, k) ==
    IF k > Len(keys) THEN <<>>
    ELSE IF cs[keys[k]].readyState = "OPEN"
    THEN <<Message(keys[k], type, userId)>>
             \o SendToUserFromAnyone(cs, keys, userId, type, k + 1)
    ELSE SendToUserFromAnyone(cs, keys, userId, type, k + 1)

RECURSIVE SendToUserFrom(_, _, _, _, _)
SendToUserFrom(cs, keys, userId, type, k) ==
    IF k > Len(keys) THEN <<>>
    ELSE IF cs[keys[k]].userId = userId /\ cs[keys[k]].readyState = "OPEN"
    THEN <<Message(keys[k], type, userId)>>
             \o SendToUserFrom(cs, keys, userId, type, k + 1)
    ELSE SendToUserFrom(cs, keys, userId, type, k + 1)

sendToUser(cs, keys, userId, type) == SendToUserFrom(cs, keys, userId, type, 1)

\* a broadcast loop that ends at the first session it skips
RECURSIVE BroadcastFromUntilSkipped(_, _, _, _)
BroadcastFromUntilSkipped(cs, keys, channel, k) ==
    IF k > Len(keys) THEN <<>>
    ELSE IF channel \in cs[keys[k]].subscriptions /\ cs[keys[k]].readyState = "OPEN"
    THEN <<Message(keys[k], "broadcast", channel)>>
             \o BroadcastFromUntilSkipped(cs, keys, channel, k + 1)
    ELSE <<>>

RECURSIVE BroadcastFrom(_, _, _, _)
BroadcastFrom(cs, keys, channel, k) ==
    IF k > Len(keys) THEN <<>>
    ELSE IF channel \in cs[keys[k]].subscriptions /\ cs[keys[k]].readyState = "OPEN"
    THEN <<Message(keys[k], "broadcast", channel)>>
             \o BroadcastFrom(cs, keys, channel, k + 1)
    ELSE BroadcastFrom(cs, keys, channel, k + 1)

broadcast(cs, keys, channel) == BroadcastFrom(cs, keys, channel, 1)

\* a rate check that lets through one message more than the limit
RateAllowedInclusive(rl, clientId, t) ==
    \/ clientId \notin DOMAIN rl
    \/ t > rl[clientId].resetTime
    \/ rl[clientId].messages <= messageRateLimit

\* checkRateLimit: whether the message is let through ...
RateAllowed(rl, clientId, t) ==
    \/ clientId \notin DOMAIN rl
    \/ t > rl[clientId].resetTime
    \/ rl[clientId].messages < messageRateLimit

\* ... and the counters after it
RateCounted(rl, clientId, t) ==
    IF clientId \notin DOMAIN rl \/ t > rl[clientId].resetTime
    THEN Put(rl, clientId, [messages |-> 1, resetTime |-> t + RateWindow])
    ELSE IF rl[clientId].messages >= messageRateLimit THEN rl
    ELSE [rl EXCEPT ![clientId].messages = @ + 1]

\* a delete that empties the Map
RemoveEvery(f, k) == [x \in {} |-> f[x]]

\* Map.delete
Remove(f, k) == [x \in (DOMAIN f) \ {k} |-> f[x]]

RemoveKey(keys, k) == IF IndexOf(keys, k) = 0 THEN keys ELSE Splice(keys, IndexOf(keys, k))

\* ------------------------------------------------------------------------
\* The engine event listeners of server.js
\* ------------------------------------------------------------------------
\* the message type a listener sends for an engine event ("" when the event
\* has no listener that writes to sessions)
ListenerType(type) ==
    CASE type = "orderCreated" -> "order_created"
      [] type = "orderFilled" -> "order_filled"
      [] type = "orderCancelled" -> "order_cancelled"
      [] type = "positionUpdate" -> "position_update"
      [] type = "balanceUpdate" -> "balance_update"
      [] type = "liquidation" -> "liquidation"
      [] OTHER -> ""

\* ------------------------------------------------------------------------
\* The broadcast queue (server.js)
\* ------------------------------------------------------------------------
\* broadcastQueue.splice(0, 10)
BatchSize == 10

\* the longest queue explored
MaxQueued == 12

\* data of a queue entry whose content is not modelled
NoData == [f \in {} |-> 0]

QueueEntry(channel, data) == [channel |-> channel, data |-> data]

\* the queue, the flag, the scheduled drains and the entries handed to
\* wsManager.broadcast so far in the step
QueueState(queue, flag, timers, out) ==
    [queue |-> queue, isBroadcasting |-> flag, timers |-> timers, handed |-> out]

BroadcastQueue == QueueState(broadcastQueue, isBroadcasting, drainTimers, <<>>)

SetQueue(Q) ==
    /\ broadcastQueue' = Q.queue
    /\ isBroadcasting' = Q.isBroadcasting
    /\ drainTimers' = Q.timers
    /\ handed' = Q.handed

Shorter(a, b) == IF a <= b THEN a ELSE b

\* a drain that goes on synchronously until the queue is empty
processBroadcastQueueRecursing(Q) ==
    IF Q.isBroadcasting \/ Q.queue = <<>> THEN Q
    ELSE [Q EXCEPT !.queue = <<>>, !.handed = @ \o Q.queue]

\* a drain that returns without clearing the flag
processBroadcastQueueStuck(Q) ==
    IF Q.isBroadcasting \/ Q.queue = <<>> THEN Q
    ELSE [Q EXCEPT !.queue = <<>>, !.handed = @ \o Q.queue,
                   !.isBroadcasting = TRUE]

\* processBroadcastQueue: the flag is set while the batch is handed to
\* wsManager.broadcast, entry by entry, and cleared after it; there is no
\* await in the function, so a call runs to its end
processBroadcastQueue(Q) ==
    IF Q.isBroadcasting \/ Q.queue = <<>> THEN Q
    ELSE [Q EXCEPT
            !.queue = SubSeq(@, Shorter(BatchSize, Len(@)) + 1, Len(@)),
            !.handed = @ \o SubSeq(Q.queue, 1, Shorter(BatchSize, Len(Q.queue))),
            !.timers = IF Len(Q.queue) > BatchSize THEN @ + 1 ELSE @]

queueBroadcast(Q, entry) ==
    processBroadcastQueue([Q EXCEPT !.queue = Append(@, entry)])

\* the object the liquidation listener queues, lines 360-366: `side:
\* data.side, qty: data.qty, loss: data.loss` read from the event.  A
\* property the event does not have reads as undefined, and JSON.stringify
\* leaves an undefined property out of the message.  (symbol and timestamp
\* are not modelled.)
LiquidationNotice(data) ==
    [f \in {"side", "qty", "loss"} \cap DOMAIN data |-> data[f]]

\* the queue after the liquidation listener has run for the events em[i..]
RECURSIVE QueueAfterEvents(_, _, _)
QueueAfterEvents(Q, em, i) ==
    IF i > Len(em) THEN Q
    ELSE QueueAfterEvents(
             IF em[i].type = "liquidation"
             THEN queueBroadcast(Q, QueueEntry("liquidations", LiquidationNotice(em[i])))
             ELSE Q,
             em, i + 1)

\* broadcast(channel, message): the messages with their `data: message`
Carrying(msgs, data) ==
    [i \in 1..Len(msgs) |->
        [to |-> msgs[i].to, type |-> msgs[i].type, info |-> msgs[i].info,
         data |-> data]]

\* One listener call.  The liquidation listener also calls
\* queueBroadcast('liquidations', ..): the broadcast queue is empty between
\* handlers (every queueBroadcast drains up to 10 entries synchronously),
\* so the entry is handed to wsManager.broadcast at once.
OnEvent(cs, keys, ev) ==
    IF ListenerType(ev.type) = "" THEN <<>>
    ELSE IF ev.type = "liquidation"
    THEN sendToUser(cs, keys, ev.userId, "liquidation")
             \o Carrying(broadcast(cs, keys, "liquidations"), LiquidationNotice(ev))
    ELSE sendToUser(cs, keys, ev.userId, ListenerType(ev.type))

\* the messages sent for the events em[i..], in the order of emission
RECURSIVE SendEvents(_, _, _, _)
SendEvents(cs, keys, em, i) ==
    IF i > Len(em) THEN <<>>
    ELSE OnEvent(cs, keys, em[i]) \o SendEvents(cs, keys, em, i + 1)

\* ------------------------------------------------------------------------
\* BybitService (services/bybitService.js)
\* ------------------------------------------------------------------------
\* config.websocket.maxReconnectAttempts
maxReconnectAttempts == 10

\* the sockets the service creates in one run
MaxFeedSockets == 13

\* The service after its constructor.  ws and reconnectTimeout are the number
\* of the socket and of the timer they refer to, 0 for null; sockets holds
\* the sockets that have not emitted 'close' yet, with "connecting", "open"
\* or "closing"; timers holds the reconnect timers that are pending.
\* stopped and everStopped are not fields of the service: they record that
\* disconnect() was called, since the last call of connect() from outside
\* and ever.
BybitService ==
    [ws |-> 0, sockets |-> <<>>, created |-> 0, isConnected |-> FALSE,
     reconnectAttempts |-> 0, pinging |-> FALSE, reconnectTimeout |-> 0,
     timers |-> {}, scheduled |-> 0, stopped |-> FALSE, everStopped |-> FALSE]

ReadyState(S, id) == IF id \in DOMAIN S.sockets THEN S.sockets[id] ELSE "closed"

With(f, k, v) == [x \in (DOMAIN f) \cup {k} |-> IF x = k THEN v ELSE f[x]]

\* connect(): the handlers are attached to every socket it creates
connect(S) ==
    IF S.ws # 0 /\ ReadyState(S, S.ws) = "open" THEN S
    ELSE [S EXCEPT !.ws = S.created + 1,
                   !.created = @ + 1,
                   !.sockets = With(@, S.created + 1, "connecting")]

\* scheduleReconnect()
scheduleReconnect(S) ==
    IF S.reconnectAttempts >= maxReconnectAttempts THEN S
    ELSE [S EXCEPT !.scheduled = @ + 1,
                   !.timers = @ \cup {S.scheduled + 1},
                   !.reconnectTimeout = S.scheduled + 1]

\* the 'open' handler
OnOpen(S, id) ==
    [S EXCEPT !.sockets[id] = "open", !.isConnected = TRUE,
              !.reconnectAttempts = 0, !.pinging = TRUE]

\* the 'close' handler (after the 'error' handler when the socket failed)
OnClose(S, id) ==
    scheduleReconnect([S EXCEPT !.sockets = Remove(@, id),
                                !.isConnected = FALSE, !.pinging = FALSE])

\* the callback of the reconnect timer
OnReconnectTimeout(S, t) ==
    connect([S EXCEPT !.timers = @ \ {t}, !.reconnectAttempts = @ + 1])

\* disconnect(): ws.close() starts the closing of a socket that is not
\* closed yet; its 'close' event comes later
disconnect(S) ==
    [S EXCEPT !.pinging = FALSE,
              !.timers = @ \ {S.reconnectTimeout},
              !.reconnectTimeout = 0,
              !.sockets = IF S.ws \in DOMAIN @ THEN [@ EXCEPT ![S.ws] = "closing"] ELSE @,
              !.ws = 0,
              !.isConnected = FALSE,
              !.stopped = TRUE,
              !.everStopped = TRUE]

\* ------------------------------------------------------------------------
\* The state machine: one action per engine operation
\* ------------------------------------------------------------------------
\* The payloads of place_order.  A reduce-only order never reads its
\* leverage past the leverage check, so reduce-only payloads are sent with
\* the default leverage or with the rejected one.
OrderData ==
    {d \in [side : Sides, orderType : OrderTypes, qty : Qtys, price : LimitPrices,
            leverage : Leverages, reduceOnly : BOOLEAN] :
        d.reduceOnly => d.leverage >= defaultLeverage}

\* op: the operation, error: the message of the Error it threw ("" when it
\* returned), ret: the orderId of the order it returned (0 when none)
Result(op, userId, error, ret) ==
    [op |-> op, userId |-> userId, error |-> error, ret |-> ret]

\* no client message
NoInbound == [clientId |-> "", action |-> "", arg |-> {}]

Inbound(clientId, action, arg) ==
    [clientId |-> clientId, action |-> action, arg |-> arg]

CommitLedger(E, res) ==
    /\ users' = E.users
    /\ userKeys' = E.userKeys
    /\ positions' = E.positions
    /\ orders' = E.orders
    /\ orderObjs' = E.orderObjs
    /\ currentPrice' = E.currentPrice
    /\ uuid' = E.uuid
    /\ emitted' = E.emitted
    /\ result' = res
    /\ UNCHANGED <<shutdownVars, bybit>>

\* ... and the broadcast queue after the liquidation listener has queued a
\* notice for each liquidation of the call
CommitEngine(E, res) ==
    /\ CommitLedger(E, res)
    /\ SetQueue(QueueAfterEvents(BroadcastQueue, E.emitted, 1))

\* An engine operation called from outside the sessions (REST handler, price
\* feed): the listeners deliver its events to the sessions of the user.
Commit(E, res) ==
    /\ CommitEngine(E, res)
    /\ sent' = SendEvents(clients, clientKeys, E.emitted, 1)
    /\ inbound' = NoInbound
    /\ UNCHANGED <<clients, clientKeys, rateLimits, now, authWaiting>>

\* the outcome r = [E, error, ret] of a call becomes the next state
Done(op, userId, r) == Commit(r.E, Result(op, userId, r.error, r.ret))

ServerStarted ==
    /\ users = <<>>
    /\ userKeys = <<>>
    /\ positions = <<>>
    /\ orders = <<>>
    /\ orderObjs = <<>>
    /\ currentPrice = Num(InitialPrice)
    /\ uuid = 0
    /\ emitted = <<>>
    /\ result = Result("init", "", "", 0)
    /\ clients = <<>>
    /\ clientKeys = <<>>
    /\ rateLimits = <<>>
    /\ now = 0
    /\ authWaiting = {}
    /\ sent = <<>>
    /\ inbound = NoInbound
    /\ listening = TRUE
    /\ closePending = 0
    /\ exitTimers = {}
    /\ exitCode = ""
    /\ handed = <<>>
    /\ bybit = BybitService

Init ==
    /\ ServerStarted
    /\ broadcastQueue = <<>>
    /\ isBroadcasting = FALSE
    /\ drainTimers = 0

InitUser ==
    /\ \E userId \in Provisioned :
        Commit(initUser(Engine, userId), Result("initUser", userId, "", 0))

CreateOrder ==
    /\ Cardinality(DOMAIN orderObjs) < MaxOrders
    /\ \E userId \in UserIds, d \in OrderData :
        Done("createOrder", userId, createOrder(Engine, userId, d))

ClosePosition ==
    /\ Cardinality(DOMAIN orderObjs) < MaxOrders
    /\ \E userId \in UserIds, positionId \in 1..(uuid + 1), closeQty \in CloseQtys :
        Done("closePosition", userId, closePosition(Engine, userId, positionId, closeQty))

\* the ids of the orders created so far and one id that was never issued
CancelOrder ==
    \E userId \in UserIds, orderId \in (DOMAIN orderObjs) \cup {uuid + 1} :
        Done("cancelOrder", userId, cancelOrder(Engine, userId, orderId))

UpdateCurrentPrice ==
    /\ \E price \in TickPrices :
        Commit(updateCurrentPrice(Engine, price),
               Result("updateCurrentPrice", "", "", 0))

Next ==
    \/ InitUser
    \/ CreateOrder
    \/ ClosePosition
    \/ CancelOrder
    \/ UpdateCurrentPrice

Spec == Init /\ [][Next]_vars

\* ------------------------------------------------------------------------
\* The same engine driven by payloads as the handlers pass them on:
\* place_order / POST /api/trade/order and close_position /
\* POST /api/trade/position/close hand qty and leverage to the engine
\* without validating them, so a zero quantity, a negative close quantity
\* and a negative leverage reach createOrder and closePosition.
\* ------------------------------------------------------------------------
MaxUnvalidated == 3

UnvalidatedOrderData ==
    [side : Sides, orderType : {"Market"}, qty : {Num(0), Num(1)},
     price : {Zero}, leverage : {-10, 10}, reduceOnly : {FALSE}]

UnvalidatedCloseQtys == {NoQty, Num(-1)}

\* The order is placed into an empty book: merging a zero quantity into a
\* zero position divides 0 by 0, a NaN that the exact numbers do not model.
PlaceUnvalidated ==
    /\ Cardinality(DOMAIN orderObjs) < MaxUnvalidated
    /\ \E userId \in DOMAIN positions, d \in UnvalidatedOrderData :
        /\ positions[userId] = <<>>
        /\ Done("createOrder", userId, createOrder(Engine, userId, d))

CloseUnvalidated ==
    /\ Cardinality(DOMAIN orderObjs) < MaxUnvalidated
    /\ \E userId \in UserIds, positionId \in 1..(uuid + 1),
          closeQty \in UnvalidatedCloseQtys :
        Done("closePosition", userId,
             closePosition(Engine, userId, positionId, closeQty))

NextUnvalidated ==
    \/ InitUser
    \/ PlaceUnvalidated
    \/ CloseUnvalidated
    \/ UpdateCurrentPrice

SpecUnvalidated == Init /\ [][NextUnvalidated]_vars

\* ------------------------------------------------------------------------
\* The sessions of the WebSocket server: one action per socket event,
\* message type, timer callback and suspended continuation
\* ------------------------------------------------------------------------
ClientIds == {"c1", "c2"}
\* messages a session sends within one rate window
MaxMessages == 2
\* orders placed through the sessions; a position may still be closed
MaxSessionOrders == 1
\* payload.userId of auth: absent, or an id the client chooses
AuthIds == {NoUser, "u1"}
\* the values uuidv4() returns for new users, in the order of the calls
GeneratedIds == <<"g1">>
Channels == {"ticker", "liquidations"}
\* payload.channels of subscribe / unsubscribe
ChannelArrays == {<<"ticker">>, <<"liquidations">>, <<"ticker", "liquidations">>}
SessionOrderData ==
    [side : {"Sell"}, orderType : OrderTypes, qty : {Num(1)}, price : {Num(59940)},
     leverage : {10}, reduceOnly : {FALSE}]
\* a 10x short of 1 opened at 50000 (cash 9970, maintenance margin 25) is
\* liquidated at 59940 (equity 30); a pending Sell at 59940 is filled
SessionTicks == {Num(59940)}
\* the instants at which something happens
Instants == {0, 1000, 1001, 300000, 300001}
GuardedActions == {"get_positions", "get_orders", "get_balance", "get_trade_history"}
OpenActions == {"get_leaderboard", "ping"}

Range(s) == {s[i] : i \in 1..Len(s)}

FreeGenerated(us) ==
    {k \in 1..Len(GeneratedIds) : GeneratedIds[k] \notin DOMAIN us}

\* const newUserId = uuidv4()
NextGenerated(us) ==
    GeneratedIds[CHOOSE k \in FreeGenerated(us) : \A j \in FreeGenerated(us) : k <= j]

\* the reply type of a query
ReplyType(action) ==
    CASE action = "get_positions" -> "positions"
      [] action = "get_orders" -> "orders"
      [] action = "get_balance" -> "balance"
      [] action = "get_trade_history" -> "trade_history"
      [] action = "get_leaderboard" -> "leaderboard"
      [] OTHER -> "pong"

\* a step of the server: E and res as in CommitEngine, cs the sessions, aw
\* the suspended auth calls, out the messages written, inb the client
\* message handled
SessionStep(E, res, cs, aw, out, inb) ==
    /\ CommitEngine(E, res)
    /\ clients' = cs
    /\ authWaiting' = aw
    /\ sent' = out
    /\ inbound' = inb
    /\ UNCHANGED <<clientKeys, now>>

\* the session may send another message: it is connected and has sent
\* fewer than MaxMessages messages in its rate window
CanSend(c) ==
    /\ c \in DOMAIN clients
    /\ c \in DOMAIN rateLimits => rateLimits[c].messages < MaxMessages

\* 'message' handler, lines 1088-1097: the rate limit rejects the message
Refused(c, action, arg) ==
    /\ SessionStep(Engine, Result(action, clients[c].userId, "RATE_LIMIT", 0),
                   clients, authWaiting,
                   sendToClient(clients, c, "error", "RATE_LIMIT"),
                   Inbound(c, action, arg))
    /\ UNCHANGED rateLimits

\* the guard of the command and query handlers
Unauthorized(c, action) ==
    SessionStep(Engine, Result(action, clients[c].userId, "UNAUTHORIZED", 0),
                clients, authWaiting,
                sendToClient(clients, c, "error", "UNAUTHORIZED"),
                Inbound(c, action, {}))

\* a handler that touches neither the engine nor the suspended calls
Replied(c, action, arg, cs, type, info) ==
    SessionStep(Engine, Result(action, clients[c].userId, "", 0), cs, authWaiting,
                sendToClient(cs, c, type, info), Inbound(c, action, arg))

\* a command handler: the engine call with outcome r, whose events the
\* listeners deliver during the call, then the reply to the session
Commanded(c, action, op, r, type, failType) ==
    SessionStep(r.E, Result(op, clients[c].userId, r.error, r.ret), clients,
                authWaiting,
                SendEvents(clients, clientKeys, r.E.emitted, 1)
                    \o sendToClient(clients, c,
                                    IF r.error = "" THEN type ELSE failType,
                                    r.error),
                Inbound(c, action, {}))

\* the client ids that uuidv4() may return next: not the id of a session,
\* nor that of a closed session for which an auth call is still suspended
FreeClientIds ==
    {c \in ClientIds : /\ c \notin DOMAIN clients
                       /\ \A w \in authWaiting : w.clientId # c}

\* wss.on('connection'); "c1" is drawn before "c2" when both are free
Connect ==
    /\ \E c \in FreeClientIds :
        /\ listening
        /\ "c1" \in FreeClientIds => c = "c1"
        /\ CommitEngine(Engine, Result("connection", NoUser, "", 0))
        /\ clients' = Put(clients, c, NewClient(now))
        /\ clientKeys' = Append(clientKeys, c)
        /\ sent' = <<Message(c, "connection", c)>>
        /\ inbound' = NoInbound
        /\ UNCHANGED <<rateLimits, now, authWaiting>>

\* handleAuth that provisions a fresh ledger for every auth
handleAuthReprovision(c, userId) ==
    LET newUserId == IF userId = NoUser THEN NextGenerated(users) ELSE userId
    IN  SessionStep([initUser(Engine, newUserId) EXCEPT !.users[newUserId] = NewUser],
                    Result("initUser", newUserId, "", 0), clients,
                    authWaiting \cup {[clientId |-> c, userId |-> newUserId]},
                    <<>>, Inbound(c, "auth", {userId}))

\* handleAuth up to its first await: a known id attaches at once, an absent
\* or unknown id is provisioned (initUser runs up to its cache write) and
\* the call is suspended
handleAuth(c, userId) ==
    IF userId # NoUser /\ userId \in DOMAIN users
    THEN Replied(c, "auth", {userId},
                 [clients EXCEPT ![c].userId = userId, ![c].authenticated = TRUE],
                 "auth_success", userId)
    ELSE LET newUserId == IF userId = NoUser THEN NextGenerated(users) ELSE userId
         IN  SessionStep(initUser(Engine, newUserId),
                         Result("initUser", newUserId, "", 0), clients,
                         authWaiting \cup {[clientId |-> c, userId |-> newUserId]},
                         <<>>, Inbound(c, "auth", {userId}))

AuthMessage ==
    /\ \E c \in ClientIds, userId \in AuthIds :
        /\ CanSend(c)
        /\ userId = NoUser => FreeGenerated(users) # {}
        /\ IF ~RateAllowed(rateLimits, c, now) THEN Refused(c, "auth", {userId})
           ELSE /\ rateLimits' = RateCounted(rateLimits, c, now)
                /\ handleAuth(c, userId)

\* the client object of the suspended call, marked authenticated
Authenticated(cs, w) ==
    IF w.clientId \in DOMAIN cs
    THEN [cs EXCEPT ![w.clientId].userId = w.userId,
                    ![w.clientId].authenticated = TRUE]
    ELSE cs

\* handleAuth after `await this.tradingEngine.initUser(..)`
AuthResume ==
    /\ \E w \in authWaiting :
        /\ SessionStep(Engine, Result("auth", w.userId, "", 0),
                       Authenticated(clients, w), authWaiting \ {w},
                       sendToClient(clients, w.clientId, "auth_success", w.userId),
                       NoInbound)
        /\ UNCHANGED rateLimits

handleSubscribe(c, channels) ==
    Replied(c, "subscribe", Range(channels),
            [clients EXCEPT ![c].subscriptions = @ \cup Range(channels)],
            "subscribed", "")

SubscribeMessage ==
    /\ \E c \in ClientIds, channels \in ChannelArrays :
        /\ CanSend(c)
        /\ IF ~RateAllowed(rateLimits, c, now)
           THEN Refused(c, "subscribe", Range(channels))
           ELSE /\ rateLimits' = RateCounted(rateLimits, c, now)
                /\ handleSubscribe(c, channels)

handleUnsubscribe(c, channels) ==
    Replied(c, "unsubscribe", Range(channels),
            [clients EXCEPT ![c].subscriptions = @ \ Range(channels)],
            "unsubscribed", "")

UnsubscribeMessage ==
    /\ \E c \in ClientIds, channels \in ChannelArrays :
        /\ CanSend(c)
        /\ IF ~RateAllowed(rateLimits, c, now)
           THEN Refused(c, "unsubscribe", Range(channels))
           ELSE /\ rateLimits' = RateCounted(rateLimits, c, now)
                /\ handleUnsubscribe(c, channels)

\* handlePlaceOrder without the authentication guard
handlePlaceOrderUnguarded(c, d) ==
    Commanded(c, "place_order", "createOrder",
              createOrder(Engine, clients[c].userId, d),
              "order_response", "order_response")

handlePlaceOrder(c, d) ==
    IF ~clients[c].authenticated THEN Unauthorized(c, "place_order")
    ELSE Commanded(c, "place_order", "createOrder",
                   createOrder(Engine, clients[c].userId, d),
                   "order_response", "order_response")

PlaceOrderMessage ==
    /\ \E c \in ClientIds, d \in SessionOrderData :
        /\ CanSend(c)
        /\ Cardinality(DOMAIN orderObjs) < MaxSessionOrders
        /\ IF ~RateAllowed(rateLimits, c, now) THEN Refused(c, "place_order", {})
           ELSE /\ rateLimits' = RateCounted(rateLimits, c, now)
                /\ handlePlaceOrder(c, d)

handleCancelOrder(c, orderId) ==
    IF ~clients[c].authenticated THEN Unauthorized(c, "cancel_order")
    ELSE Commanded(c, "cancel_order", "cancelOrder",
                   cancelOrder(Engine, clients[c].userId, orderId),
                   "order_cancelled", "error")

CancelOrderMessage ==
    /\ \E c \in ClientIds, orderId \in (DOMAIN orderObjs) \cup {uuid + 1} :
        /\ CanSend(c)
        /\ IF ~RateAllowed(rateLimits, c, now) THEN Refused(c, "cancel_order", {})
           ELSE /\ rateLimits' = RateCounted(rateLimits, c, now)
                /\ handleCancelOrder(c, orderId)

handleClosePosition(c, positionId, qty) ==
    IF ~clients[c].authenticated THEN Unauthorized(c, "close_position")
    ELSE Commanded(c, "close_position", "closePosition",
                   closePosition(Engine, clients[c].userId, positionId, qty),
                   "position_closed", "error")

ClosePositionMessage ==
    /\ \E c \in ClientIds, positionId \in 1..(uuid + 1) :
        /\ CanSend(c)
        /\ Cardinality(DOMAIN orderObjs) <= MaxSessionOrders
        /\ IF ~RateAllowed(rateLimits, c, now) THEN Refused(c, "close_position", {})
           ELSE /\ rateLimits' = RateCounted(rateLimits, c, now)
                /\ handleClosePosition(c, positionId, NoQty)

\* handleGetPositions / Orders / Balance / TradeHistory, and the actions
\* that carry no guard
handleQuery(c, action) ==
    IF action \in GuardedActions /\ ~clients[c].authenticated
    THEN Unauthorized(c, action)
    ELSE Replied(c, action, {}, clients, ReplyType(action), "")

\* a query of one of the guarded kinds
QueryMessage ==
    /\ \E c \in ClientIds, action \in GuardedActions :
        /\ CanSend(c)
        /\ IF ~RateAllowed(rateLimits, c, now) THEN Refused(c, action, {})
           ELSE /\ rateLimits' = RateCounted(rateLimits, c, now)
                /\ handleQuery(c, action)

\* the session has used up MaxMessages messages of its rate window
Flooding(c) == c \in DOMAIN rateLimits /\ rateLimits[c].messages >= MaxMessages

\* a `ping` message of a session that keeps sending; one session at a time
\* goes beyond MaxMessages
PingMessage ==
    /\ \E c \in DOMAIN clients :
        /\ \A o \in (DOMAIN clients) \ {c} : ~Flooding(o)
        /\ IF ~RateAllowed(rateLimits, c, now) THEN Refused(c, "ping", {})
           ELSE /\ rateLimits' = RateCounted(rateLimits, c, now)
                /\ handleQuery(c, "ping")

\* tickers.BTCUSDT: tradingEngine.updateCurrentPrice(lastPrice)
SessionTick ==
    /\ \E price \in SessionTicks :
        Commit(updateCurrentPrice(Engine, price),
               Result("updateCurrentPrice", "", "", 0))

\* the socket leaves OPEN: the peer or the server has started the closing
\* handshake and the 'close' event has not been emitted yet
SocketClosing ==
    /\ \E c \in DOMAIN clients :
        /\ clients[c].readyState = "OPEN"
        /\ SessionStep(Engine, Result("closing", clients[c].userId, "", 0),
                       [clients EXCEPT ![c].readyState = "CLOSING"],
                       authWaiting, <<>>, NoInbound)
        /\ UNCHANGED rateLimits

\* ws.on('close'): handleDisconnect
SocketClosed ==
    /\ \E c \in DOMAIN clients :
        /\ CommitEngine(Engine, Result("close", clients[c].userId, "", 0))
        /\ clients' = Remove(clients, c)
        /\ clientKeys' = RemoveKey(clientKeys, c)
        /\ rateLimits' = Remove(rateLimits, c)
        /\ sent' = <<>>
        /\ inbound' = NoInbound
        /\ UNCHANGED <<now, authWaiting>>

\* ws.on('pong')
Pong ==
    /\ \E c \in DOMAIN clients :
        /\ SessionStep(Engine, Result("pong", clients[c].userId, "", 0),
                       [clients EXCEPT ![c].lastActivity = now],
                       authWaiting, <<>>, NoInbound)
        /\ UNCHANGED rateLimits

\* the heartbeat callback for one session: a ping, then close() when the
\* session has been inactive for more than the window
Probed(client, t) ==
    IF client.readyState = "OPEN" /\ t - client.lastActivity > InactivityWindow
    THEN [client EXCEPT !.readyState = "CLOSING"]
    ELSE client

RECURSIVE PingsFrom(_, _, _)
PingsFrom(cs, keys, k) ==
    IF k > Len(keys) THEN <<>>
    ELSE IF cs[keys[k]].readyState = "OPEN"
    THEN <<Message(keys[k], "ping", "")>> \o PingsFrom(cs, keys, k + 1)
    ELSE PingsFrom(cs, keys, k + 1)

\* the setInterval callback of startHeartbeat
Heartbeat ==
    /\ SessionStep(Engine, Result("heartbeat", NoUser, "", 0),
                   [c \in DOMAIN clients |-> Probed(clients[c], now)],
                   authWaiting, PingsFrom(clients, clientKeys, 1), NoInbound)
    /\ UNCHANGED rateLimits

\* wsManager.broadcast for the entries handed over, in their order
RECURSIVE BroadcastAll(_, _, _, _)
BroadcastAll(cs, keys, entries, i) ==
    IF i > Len(entries) THEN <<>>
    ELSE (IF entries[i].data = NoData
          THEN broadcast(cs, keys, entries[i].channel)
          ELSE Carrying(broadcast(cs, keys, entries[i].channel), entries[i].data))
         \o BroadcastAll(cs, keys, entries, i + 1)

\* a step of the broadcast queue that ends in state Q
QueueStep(Q, res, inb) ==
    /\ CommitLedger(Engine, res)
    /\ SetQueue(Q)
    /\ sent' = BroadcastAll(clients, clientKeys, Q.handed, 1)
    /\ inbound' = inb
    /\ UNCHANGED <<clients, clientKeys, rateLimits, now, authWaiting>>

\* a feed handler calls queueBroadcast(channel, data)
Broadcast ==
    /\ \E channel \in Channels :
        /\ Len(broadcastQueue) < MaxQueued
        /\ QueueStep(queueBroadcast(BroadcastQueue, QueueEntry(channel, NoData)),
                     Result("broadcast", NoUser, "", 0),
                     Inbound("", "broadcast", {channel}))

\* the callback of setTimeout(processBroadcastQueue, 10)
DrainTimer ==
    /\ drainTimers > 0
    /\ QueueStep(processBroadcastQueue(
                     QueueState(broadcastQueue, isBroadcasting, drainTimers - 1, <<>>)),
                 Result("drain", NoUser, "", 0), NoInbound)

\* time passes up to the next instant at which something happens; a timer
\* that is due runs before time passes on
Advance ==
    /\ \E t \in Instants \cup exitTimers :
        /\ exitCode = ""
        /\ t > now
        /\ \A d \in exitTimers : t <= d
        /\ now' = t
        /\ CommitEngine(Engine, Result("advance", NoUser, "", 0))
        /\ sent' = <<>>
        /\ inbound' = NoInbound
        /\ UNCHANGED <<clients, clientKeys, rateLimits, authWaiting>>

\* authentication, commands, queries and the delivery of engine events
NextSessions ==
    \/ Connect
    \/ AuthMessage
    \/ AuthResume
    \/ PlaceOrderMessage
    \/ CancelOrderMessage
    \/ ClosePositionMessage
    \/ QueryMessage
    \/ SessionTick
    \/ SocketClosing
    \/ SocketClosed

SpecSessions == Init /\ [][NextSessions]_vars

\* subscriptions and channel broadcasts
NextChannels ==
    \/ Connect
    \/ SubscribeMessage
    \/ UnsubscribeMessage
    \/ Broadcast
    \/ SocketClosing
    \/ SocketClosed

SpecChannels == Init /\ [][NextChannels]_vars

\* the heartbeat
NextHeartbeat ==
    \/ Connect
    \/ QueryMessage
    \/ Pong
    \/ Heartbeat
    \/ Advance
    \/ SocketClosed

SpecHeartbeat == Init /\ [][NextHeartbeat]_vars

\* the rate limit
NextRateLimit ==
    \/ Connect
    \/ PingMessage
    \/ Advance
    \/ SocketClosed

SpecRateLimit == Init /\ [][NextRateLimit]_vars

\* the liquidation feed: sessions that trade and sessions that subscribe
NextFeed ==
    \/ Connect
    \/ AuthMessage
    \/ AuthResume
    \/ SubscribeMessage
    \/ PlaceOrderMessage
    \/ SessionTick
    \/ SocketClosed

SpecFeed == Init /\ [][NextFeed]_vars

\* ------------------------------------------------------------------------
\* gracefulShutdown (server.js)
\* ------------------------------------------------------------------------
\* setTimeout(.., 30000)
ShutdownGrace == 30000
\* calls of gracefulShutdown considered (SIGTERM, SIGINT, uncaughtException)
MaxSignals == 2

\* a shutdown that replaces the pending forced-exit timer by a new one
gracefulShutdownRestarting(timers, t) == {t + ShutdownGrace}

\* the timers after gracefulShutdown has run at instant t: one more
\* setTimeout, none cleared
gracefulShutdown(timers, t) == timers \cup {t + ShutdownGrace}

\* the variables of the engine and of the sessions, for steps of the
\* process itself
ProcessStep(res, cs, keys, rl, aw) ==
    /\ UNCHANGED <<engineVars, now>>
    /\ emitted' = <<>>
    /\ result' = res
    /\ clients' = cs
    /\ clientKeys' = keys
    /\ rateLimits' = rl
    /\ authWaiting' = aw
    /\ sent' = <<>>
    /\ inbound' = NoInbound
    /\ SetQueue(BroadcastQueue)

\* SIGTERM, SIGINT or an uncaught exception: server.close(callback) stops
\* the server from accepting connections and keeps the callback until every
\* connection has ended; the forced-exit timer is started
Signal ==
    /\ exitCode = ""
    /\ closePending < MaxSignals
    /\ listening' = FALSE
    /\ closePending' = closePending + 1
    /\ exitTimers' = gracefulShutdown(exitTimers, now)
    /\ UNCHANGED <<exitCode, bybit>>
    /\ ProcessStep(Result("gracefulShutdown", NoUser, "", 0), clients,
                   clientKeys, rateLimits, authWaiting)

\* the callback of server.close(), called once no connection is left:
\* wsManager.close(), bybitService.disconnect(), then either
\* cacheService.clear() and process.exit(0), or `await
\* cacheService.disconnect()`, which may not have returned yet
ServerClosed ==
    /\ \E returned \in BOOLEAN :
        /\ exitCode = ""
        /\ closePending > 0
        /\ clients = <<>>
        /\ closePending' = 0
        /\ exitCode' = IF returned THEN "0" ELSE ""
        /\ bybit' = disconnect(bybit)
        /\ UNCHANGED <<listening, exitTimers>>
        /\ ProcessStep(Result("serverClosed", NoUser, "", 0), clients,
                       clientKeys, rateLimits, IF returned THEN {} ELSE authWaiting)

\* the forced-exit timer: process.exit(1) ends the process with every
\* socket it still holds; ret is the number of sessions that were left
ExitTimeout ==
    /\ \E d \in exitTimers :
        /\ exitCode = ""
        /\ now >= d
        /\ exitCode' = "1"
        /\ UNCHANGED <<listening, closePending, exitTimers, bybit>>
        /\ ProcessStep(Result("exit", NoUser, "", Cardinality(DOMAIN clients)),
                       <<>>, <<>>, <<>>, {})

\* a step of the feed service that ends in state S
FeedStep(S, op) ==
    /\ exitCode = ""
    /\ bybit' = S
    /\ UNCHANGED shutdownVars
    /\ ProcessStep(Result(op, NoUser, "", 0), clients, clientKeys, rateLimits,
                   authWaiting)

\* bybitService.connect() called from outside the service, at the start of
\* the server or after a disconnect()
FeedConnect ==
    /\ bybit.ws = 0
    /\ bybit.created < MaxFeedSockets
    /\ FeedStep([connect(bybit) EXCEPT !.stopped = FALSE], "connect")

\* bybitService.disconnect() called from outside the service, once in a run
FeedDisconnect ==
    /\ ~bybit.everStopped
    /\ FeedStep(disconnect(bybit), "disconnect")

\* a socket emits 'open'
FeedOpened ==
    /\ \E id \in DOMAIN bybit.sockets :
        /\ bybit.sockets[id] = "connecting"
        /\ FeedStep(OnOpen(bybit, id), "open")

\* a socket emits 'close': the connection failed, was lost, or was closed
FeedClosed ==
    /\ \E id \in DOMAIN bybit.sockets :
        FeedStep(OnClose(bybit, id), "feedClosed")

\* a reconnect timer runs
ReconnectTimer ==
    /\ \E t \in bybit.timers :
        /\ bybit.created < MaxFeedSockets
        /\ FeedStep(OnReconnectTimeout(bybit, t), "reconnect")

NextBybit ==
    \/ FeedConnect
    \/ FeedDisconnect
    \/ FeedOpened
    \/ FeedClosed
    \/ ReconnectTimer

SpecBybit == Init /\ [][NextBybit]_vars

\* two users that trade side by side: one market or limit order of quantity
\* 1 at ten times leverage each, cancels and closes with every id issued
\* so far, and ticks.  40060 liquidates a long opened at 50000 (equity 30)
\* and fills a pending Sell at 40000; 40000 fills a pending Buy as well.
MaxIsolationOrders == 2
IsolationOrderData ==
    [side : Sides, orderType : OrderTypes, qty : {Num(1)}, price : LimitPrices,
     leverage : {10}, reduceOnly : {FALSE}]
IsolationTicks == {Num(40060), Num(40000)}

ProvisionUser ==
    /\ \E userId \in UserIds :
        Commit(initUser(Engine, userId), Result("initUser", userId, "", 0))

PlaceIsolated ==
    /\ Cardinality(DOMAIN orderObjs) < MaxIsolationOrders
    /\ \E userId \in UserIds, d \in IsolationOrderData :
        Done("createOrder", userId, createOrder(Engine, userId, d))

CloseIsolated ==
    /\ Cardinality(DOMAIN orderObjs) < MaxIsolationOrders + 1
    /\ \E userId \in UserIds, positionId \in 1..(uuid + 1) :
        Done("closePosition", userId, closePosition(Engine, userId, positionId, NoQty))

TickIsolated ==
    /\ \E price \in IsolationTicks :
        Commit(updateCurrentPrice(Engine, price),
               Result("updateCurrentPrice", "", "", 0))

NextIsolation ==
    \/ ProvisionUser
    \/ PlaceIsolated
    \/ CloseIsolated
    \/ CancelOrder
    \/ TickIsolated

SpecIsolation == Init /\ [][NextIsolation]_vars

\* processBroadcastQueue as a function of the queue it finds: queues of up to
\* MaxQueued entries, the flag as a call finds it
RECURSIVE QueuesOf(_)
QueuesOf(n) ==
    IF n = 0 THEN {<<>>}
    ELSE LET shorter == QueuesOf(n - 1)
         IN  shorter \cup
             {Append(q, QueueEntry(channel, NoData)) :
                  q \in {r \in shorter : Len(r) = n - 1}, channel \in Channels}

InitDrain ==
    /\ ServerStarted
    /\ broadcastQueue \in {q \in QueuesOf(MaxQueued - 1) :
                               \A i \in 1..Len(q) : i > 1 => q[i].channel = "ticker"}
    /\ isBroadcasting \in BOOLEAN
    /\ drainTimers = 0

NextDrain ==
    \/ Broadcast
    \/ DrainTimer

SpecDrain == InitDrain /\ [][NextDrain]_vars

\* shutdown with sessions that stay or leave
NextShutdown ==
    \/ Connect
    \/ SocketClosed
    \/ Advance
    \/ Signal
    \/ ServerClosed
    \/ ExitTimeout

\* timers run when they are due and time does not stop
SpecShutdown ==
    Init /\ [][NextShutdown]_vars /\ WF_vars(Advance) /\ WF_vars(ExitTimeout)

\* ------------------------------------------------------------------------
\* Vocabulary of the properties
\* ------------------------------------------------------------------------
Ticked == result.op = "updateCurrentPrice"

Balance(u) == users[u].balance

PendingIds(u) == {orders[u][i] : i \in 1..Len(orders[u])}

Emitted(type) == {i \in 1..Len(emitted) : emitted[i].type = type}

\* the trigger condition of a limit order, as the specification states it
Triggered(order, price) ==
    IF order.side = "Buy" THEN ~Lt(order.price, price) ELSE ~Lt(price, order.price)

\* ------------------------------------------------------------------------
\* C1: after every updateCurrentPrice, for every user totalEquity equals
\* cashBalance plus the sum of unrealizedPnl over the user's open positions,
\* also on ticks that liquidate a position or fill a pending Limit order.
\* ------------------------------------------------------------------------
C1_EquityAfterTick ==
    Ticked =>
        \A u \in DOMAIN users :
            Balance(u).totalEquity = Add(Balance(u).USDT, SumUnrealized(positions[u], 1))

\* ------------------------------------------------------------------------
\* C2: in every state reached after a successful engine mutation every
\* user's availableBalance is >= 0.
\* ------------------------------------------------------------------------
C2_AvailableNonNegative ==
    \A u \in DOMAIN users : ~Lt(Balance(u).availableBalance, Zero)

\* ------------------------------------------------------------------------
\* C3: after any fill the user's aggregate marginUsed is the sum of
\* marginUsed over the remaining open positions, every position's
\* marginUsed is qty*avgPrice/leverage, and availableBalance is
\* cashBalance - marginUsed; a full close releases the closed margin.
\* ------------------------------------------------------------------------
C3_MarginRefreshed ==
    \A u \in DOMAIN users :
        /\ Balance(u).marginUsed = SumMargin(positions[u], 1)
        /\ \A i \in 1..Len(positions[u]) :
              LET p == positions[u][i]
              IN  Mul(p.marginUsed, Num(p.leverage)) = Mul(p.qty, p.avgPrice)
        /\ Balance(u).availableBalance = Sub(Balance(u).USDT, Balance(u).marginUsed)

\* ------------------------------------------------------------------------
\* C4: on a price tick a position is force-closed if and only if
\* maintenanceMargin / (cashBalance + unrealizedPnl) >= liquidationThreshold
\* at the tick price; a ratio exactly on the threshold liquidates, a ratio
\* below it never does.
\* ------------------------------------------------------------------------
\* the ratio of the claim: defined for positive equity, +Infinity when a
\* positive maintenance margin is divided by zero equity
RatioAtLeastThreshold(maintenanceMargin, equity) ==
    \/ equity.n > 0 /\ ~Lt(maintenanceMargin, Mul(liquidationThreshold, equity))
    \/ equity.n = 0 /\ maintenanceMargin.n > 0

PnlAt(p, price) ==
    IF p.side = "Buy" THEN Mul(Sub(price, p.avgPrice), p.qty)
    ELSE Mul(Sub(p.avgPrice, price), p.qty)

\* the events em hold a liquidation of the position
Liquidated(em, u, positionId) ==
    \E i \in 1..Len(em) :
        /\ em[i].type = "liquidation"
        /\ em[i].userId = u
        /\ em[i].id = positionId

HasPosition(ps, positionId) ==
    \E i \in 1..Len(ps) : ps[i].positionId = positionId

C4_LiquidationIffRatio ==
    [][Ticked' =>
         \A u \in DOMAIN users : \A i \in 1..Len(positions[u]) :
             LET p == positions[u][i]
                 equity == Add(Balance(u).USDT, PnlAt(p, currentPrice'))
             IN  /\ Liquidated(emitted', u, p.positionId)
                      <=> RatioAtLeastThreshold(p.maintenanceMargin, equity)
                 /\ Liquidated(emitted', u, p.positionId)
                      => ~HasPosition(positions'[u], p.positionId)
      ]_vars

\* A liquidation on a ratio of exactly the threshold: the user's history is
\* the opening fill and the liquidating close, so the cash before the tick
\* is the initial balance less the opening fee.
C4_Witness ==
    /\ Ticked
    /\ \E u \in DOMAIN users : \E i \in Emitted("liquidation") :
          LET th == users[u].tradeHistory
              open == orderObjs[th[1].orderId]
              maintenanceMargin ==
                  Mul(Div(Mul(open.qty, open.price), Num(open.leverage)),
                      maintenanceMarginRate)
              equity == Add(Sub(Num(initialBalance), th[1].fee), emitted[i].loss)
          IN  /\ emitted[i].userId = u
              /\ Len(th) = 2
              /\ ~open.reduceOnly
              /\ positions[u] = <<>>
              /\ Mul(liquidationThreshold, equity) = maintenanceMargin

\* ------------------------------------------------------------------------
\* C5: after any updateCurrentPrice no open position remains for which the
\* user's cashBalance plus the position's unrealizedPnl is below the
\* position's maintenanceMargin, zero or negative equity included.
\* ------------------------------------------------------------------------
C5_NoBreachSurvives ==
    Ticked =>
        \A u \in DOMAIN users : \A i \in 1..Len(positions[u]) :
            LET p == positions[u][i]
            IN  ~Lt(Add(Balance(u).USDT, p.unrealizedPnl), p.maintenanceMargin)

\* ------------------------------------------------------------------------
\* C6: after every updateCurrentPrice no order remains in any user's
\* pending set whose trigger condition holds at the current price (Buy with
\* price <= order.price, Sell with price >= order.price), also when one
\* user has several triggered orders.
\* ------------------------------------------------------------------------
C6_AllTriggeredFilled ==
    Ticked =>
        \A u \in DOMAIN orders : \A id \in PendingIds(u) :
            ~Triggered(orderObjs[id], currentPrice)

\* ------------------------------------------------------------------------
\* C7: a Limit order is filled only on a tick whose price satisfies its
\* trigger condition; it then fills at its limit price, becomes Filled and
\* leaves the pending set; until then it is pending with status New and has
\* changed neither ledger, positions nor trade history.
\* ------------------------------------------------------------------------
PendingIn(os, u) == {os[u][i] : i \in 1..Len(os[u])}

TradesOf(us, u, id) ==
    {i \in 1..Len(us[u].tradeHistory) : us[u].tradeHistory[i].orderId = id}

C7_LimitFillOnTrigger ==
    [][/\ \A id \in DOMAIN orderObjs :
            LET o == orderObjs[id]
            IN  (o.orderType = "Limit" /\ o.status = "New") =>
                  /\ id \in PendingIn(orders, o.userId)
                  /\ TradesOf(users, o.userId, id) = {}
                  /\ orderObjs'[id].status = "New" =>
                        id \in PendingIn(orders', o.userId)
                  /\ orderObjs'[id].status = "Filled" =>
                        /\ Ticked'
                        /\ Triggered(o, currentPrice')
                        /\ orderObjs'[id].avgPrice = o.price
                        /\ orderObjs'[id].filledQty = o.qty
                        /\ id \notin PendingIn(orders', o.userId)
                        /\ \E i \in TradesOf(users', o.userId, id) :
                              users'[o.userId].tradeHistory[i].price = o.price
       /\ (result'.op = "createOrder" /\ result'.error = ""
              /\ orderObjs'[result'.ret].orderType = "Limit") =>
            /\ orderObjs'[result'.ret].status = "New"
            /\ result'.ret \in PendingIn(orders', result'.userId)
            /\ users' = users
            /\ positions' = positions
      ]_vars

\* a Limit order filled at its limit price on a tick at another price
C7_Witness ==
    /\ Ticked
    /\ \E id \in DOMAIN orderObjs :
          LET o == orderObjs[id]
          IN  /\ o.orderType = "Limit"
              /\ o.status = "Filled"
              /\ o.avgPrice = o.price
              /\ o.price # currentPrice
              /\ id \notin PendingIn(orders, o.userId)
              /\ TradesOf(users, o.userId, id) # {}

\* ------------------------------------------------------------------------
\* C8: at most one open position exists per (user, instrument) in every
\* reachable state.
\* ------------------------------------------------------------------------
C8_OnePositionPerUser ==
    \A u \in DOMAIN positions : Len(positions[u]) <= 1

\* the single position left by a flip: two fills of opposite sides, neither
\* reduce-only, and the position on the side of the second
C8_Witness ==
    \E u \in DOMAIN users :
        LET th == users[u].tradeHistory
        IN  /\ Len(th) = 2
            /\ th[1].side # th[2].side
            /\ ~orderObjs[th[1].orderId].reduceOnly
            /\ ~orderObjs[th[2].orderId].reduceOnly
            /\ Len(positions[u]) = 1
            /\ positions[u][1].side = th[2].side

\* ------------------------------------------------------------------------
\* C9: cancelOrder on an order whose status is not New (already Filled, a
\* Market order included, or already Cancelled) always fails with
\* CannotCancelFilled.
\* ------------------------------------------------------------------------
C9_CancelNonNewFails ==
    \A id \in DOMAIN orderObjs :
        orderObjs[id].status # "New" =>
            cancelOrder(Engine, orderObjs[id].userId, id).error = ErrCannotCancel

\* ------------------------------------------------------------------------
\* C10: cancelOrder with an order id that was never issued always fails with
\* OrderNotFound and leaves pending set, ledger and positions unchanged;
\* cancelOrder on a pending New order sets it Cancelled, removes it from the
\* pending set and emits orderCancelled exactly once.
\* ------------------------------------------------------------------------
NeverIssued == (1..(uuid + 1)) \ DOMAIN orderObjs

CancelOfPending ==
    (result'.op = "cancelOrder" /\ result'.error = "") =>
        /\ result'.ret \in PendingIn(orders, result'.userId)
        /\ orderObjs[result'.ret].status = "New"
        /\ orderObjs'[result'.ret].status = "Cancelled"
        /\ result'.ret \notin PendingIn(orders', result'.userId)
        /\ emitted' = <<Event("orderCancelled", result'.userId, result'.ret)>>
        /\ users' = users
        /\ positions' = positions

PendingIsCancellable ==
    \A u \in DOMAIN orders : \A id \in PendingIn(orders, u) :
        orderObjs[id].status = "New" => cancelOrder(Engine, u, id).error = ""

EmittedFor(em, type, id) ==
    {i \in 1..Len(em) : em[i].type = type /\ em[i].id = id}

\* an order in a terminal status is not touched by the step
TerminalUntouched(id) ==
    LET o == orderObjs[id]
    IN  /\ orderObjs'[id] = o
        /\ TradesOf(users', o.userId, id) = TradesOf(users, o.userId, id)
        /\ EmittedFor(emitted', "orderFilled", id) = {}
        /\ EmittedFor(emitted', "orderCancelled", id) = {}
        /\ EmittedFor(emitted', "orderCreated", id) = {}
        /\ cancelOrder(Engine, o.userId, id).error # ""

\* a pending Limit order leaves New through exactly one event
PendingLeavesOnce(id) ==
    LET filled == EmittedFor(emitted', "orderFilled", id)
        cancelled == EmittedFor(emitted', "orderCancelled", id)
    IN  /\ Cardinality(filled) + Cardinality(cancelled) <= 1
        /\ EmittedFor(emitted', "orderCreated", id) = {}
        /\ filled # {} <=> orderObjs'[id].status = "Filled"
        /\ cancelled # {} <=> orderObjs'[id].status = "Cancelled"

\* a Limit order is announced by orderCreated in the step that creates it
CreatedFirst(id) ==
    orderObjs'[id].orderType = "Limit" =>
        /\ orderObjs'[id].status = "New"
        /\ Cardinality(EmittedFor(emitted', "orderCreated", id)) = 1
        /\ EmittedFor(emitted', "orderFilled", id) = {}
        /\ EmittedFor(emitted', "orderCancelled", id) = {}

C11_TerminalStatuses ==
    [][/\ \A id \in DOMAIN orderObjs :
            /\ orderObjs[id].status \in {"Filled", "Cancelled"} =>
                  TerminalUntouched(id)
            /\ (orderObjs[id].orderType = "Limit" /\ orderObjs[id].status = "New") =>
                  PendingLeavesOnce(id)
       /\ \A id \in (DOMAIN orderObjs') \ (DOMAIN orderObjs) : CreatedFirst(id)
      ]_vars

\* a tick whose price triggers a Limit order that was cancelled before
C11_Witness ==
    /\ Ticked
    /\ \E id \in DOMAIN orderObjs :
          /\ orderObjs[id].orderType = "Limit"
          /\ orderObjs[id].status = "Cancelled"
          /\ Triggered(orderObjs[id], currentPrice)
          /\ TradesOf(users, orderObjs[id].userId, id) = {}

\* ------------------------------------------------------------------------
\* C12: createOrder rejects with UserNotFound when the user does not exist,
\* with LeverageExceeded when leverage > maxLeverage, and with
\* InsufficientBalance when the order is not reduce-only and
\* availableBalance < requiredMargin + fee; a rejected order leaves ledger,
\* positions, pending set and trade history unchanged and emits no event.
\* ------------------------------------------------------------------------
\* requiredMargin + fee as the specification states them
FundsNeeded(d, feedPrice) ==
    LET executionPrice == IF d.orderType = "Market" THEN feedPrice ELSE d.price
        rate == IF d.orderType = "Market" THEN takerFee ELSE makerFee
    IN  Add(Div(Mul(d.qty, executionPrice), Num(d.leverage)),
            Mul(Mul(d.qty, executionPrice), rate))

Rejection(userId, d) ==
    IF userId \notin DOMAIN users THEN ErrUserNotFound
    ELSE IF d.leverage > maxLeverage THEN ErrLeverage
    ELSE IF ~d.reduceOnly /\ Lt(Balance(userId).availableBalance,
                                FundsNeeded(d, currentPrice))
    THEN ErrInsufficient
    ELSE ""

\* a payload the stated validation rejects is rejected with that error,
\* the engine is left as it was and nothing is emitted
RejectedAsStated(userId, d) ==
    Rejection(userId, d) # "" =>
        /\ createOrder(Engine, userId, d) = Failed(Engine, Rejection(userId, d))
        /\ Engine.emitted = <<>>

\* a createOrder call that threw changed nothing and emitted nothing
RejectedUnchanged ==
    (result'.op = "createOrder" /\ result'.error # "") =>
        /\ result'.error \in {ErrUserNotFound, ErrLeverage, ErrInsufficient}
        /\ result'.ret = 0
        /\ emitted' = <<>>
        /\ UNCHANGED <<users, userKeys, positions, orders, orderObjs,
                       currentPrice, uuid>>

\* the first conjunct is evaluated in the states from which CreateOrder
\* places orders, for every payload of CreateOrder
C12_RejectionsLeaveNoTrace ==
    /\ [](Cardinality(DOMAIN orderObjs) < MaxOrders =>
             \A userId \in UserIds : \A d \in OrderData :
                 RejectedAsStated(userId, d))
    /\ [][RejectedUnchanged]_vars

\* an order rejected for insufficient balance on an account that holds a
\* position
C12_Witness ==
    /\ result.op = "createOrder"
    /\ result.error = ErrInsufficient
    /\ result.userId \in DOMAIN positions
    /\ positions[result.userId] # <<>>
    /\ emitted = <<>>

\* ------------------------------------------------------------------------
\* C13: every open position's leverage lies in 1..maxLeverage in every
\* reachable state, for any sequence of admitted orders, orders that merge
\* into or flip a position and orders supplying a leverage below 1 included.
\* ------------------------------------------------------------------------
C13_LeverageInRange ==
    \A u \in DOMAIN positions : \A i \in 1..Len(positions[u]) :
        positions[u][i].leverage \in 1..maxLeverage

\* ------------------------------------------------------------------------
\* C14: every position present in a user's position book has qty > 0: a
\* position whose quantity reaches 0 is removed, and no sequence of fills or
\* closePosition calls leaves a position with qty <= 0 in the book.
\* ------------------------------------------------------------------------
C14_PositiveQty ==
    \A u \in DOMAIN positions : \A i \in 1..Len(positions[u]) :
        Lt(Zero, positions[u][i].qty)

\* ------------------------------------------------------------------------
\* C15: reduce-only orders never increase, flip or open a position: after a
\* reduce-only fill the position has the same side as before and a qty no
\* larger than before, or is removed; with no existing position none is
\* created.
\* ------------------------------------------------------------------------
\* the trade records the step added to the user's history
NewTrades(u) == (Len(users[u].tradeHistory) + 1)..Len(users'[u].tradeHistory)

\* the step filled orders of the user, all of them reduce-only
OnlyReduceOnlyFills(u) ==
    /\ NewTrades(u) # {}
    /\ \A i \in NewTrades(u) :
          orderObjs'[users'[u].tradeHistory[i].orderId].reduceOnly

NotGrown(before, after) ==
    \/ after = <<>>
    \/ /\ before # <<>>
       /\ Len(after) = 1
       /\ after[1].positionId = before[1].positionId
       /\ after[1].side = before[1].side
       /\ ~Lt(before[1].qty, after[1].qty)

C15_ReduceOnlyNeverGrows ==
    [][\A u \in DOMAIN users :
          OnlyReduceOnlyFills(u) => NotGrown(positions[u], positions'[u])
      ]_vars

\* ------------------------------------------------------------------------
\* C16: a non-reduce-only fill on the side of the existing position merges
\* into it: the resulting qty is the sum of both quantities and avgPrice is
\* (qty*avgPrice + orderQty*orderPrice)/(qty + orderQty), with no realized
\* PnL and no second position.
\* ------------------------------------------------------------------------
\* the step added exactly one trade record to the user's history
OneFill(u) == Len(users'[u].tradeHistory) = Len(users[u].tradeHistory) + 1

\* that trade record and the order it belongs to
TheFill(u) == users'[u].tradeHistory[Len(users'[u].tradeHistory)]

FilledOrderOf(u) == orderObjs'[TheFill(u).orderId]

MergedAsStated(u) ==
    LET p == positions[u][1]
        fill == TheFill(u)
        q == positions'[u][1]
    IN  /\ Len(positions'[u]) = 1
        /\ q.positionId = p.positionId
        /\ q.side = p.side
        /\ q.qty = Add(p.qty, fill.qty)
        /\ Mul(q.avgPrice, q.qty) =
              Add(Mul(p.qty, p.avgPrice), Mul(fill.qty, fill.price))
        /\ q.realizedPnl = p.realizedPnl
        /\ Balance(u)'.realizedPnl = Balance(u).realizedPnl
        /\ Balance(u)'.USDT = Sub(Balance(u).USDT, fill.fee)

C16_SameSideMerges ==
    [][\A u \in DOMAIN users :
          (/\ OneFill(u)
           /\ positions[u] # <<>>
           /\ ~FilledOrderOf(u).reduceOnly
           /\ TheFill(u).side = positions[u][1].side) => MergedAsStated(u)
      ]_vars

\* two fills of one side at different prices merged into one position at
\* the weighted average
C16_Witness ==
    \E u \in DOMAIN users :
        LET th == users[u].tradeHistory
        IN  /\ Len(th) = 2
            /\ th[1].side = th[2].side
            /\ th[1].price # th[2].price
            /\ ~orderObjs[th[1].orderId].reduceOnly
            /\ ~orderObjs[th[2].orderId].reduceOnly
            /\ Len(positions[u]) = 1
            /\ positions[u][1].qty = Add(th[1].qty, th[2].qty)
            /\ Mul(positions[u][1].avgPrice, positions[u][1].qty) =
                  Add(Mul(th[1].qty, th[1].price), Mul(th[2].qty, th[2].price))

\* ------------------------------------------------------------------------
\* C17: an opposite-side fill with orderQty < positionQty is a partial
\* close: it realizes (exit - avgPrice)*orderQty for a long or
\* (avgPrice - exit)*orderQty for a short at order.price, credits that PnL
\* to the cash balance, reduces the position's qty by orderQty and leaves
\* side and avgPrice unchanged.
\* ------------------------------------------------------------------------
\* the PnL formula of the specification
StatedPnl(side, avgPrice, exitPrice, qty) ==
    IF side = "Buy" THEN Mul(Sub(exitPrice, avgPrice), qty)
    ELSE Mul(Sub(avgPrice, exitPrice), qty)

PartiallyClosedAsStated(u) ==
    LET p == positions[u][1]
        fill == TheFill(u)
        q == positions'[u][1]
        pnl == StatedPnl(p.side, p.avgPrice, fill.price, fill.qty)
    IN  /\ Len(positions'[u]) = 1
        /\ q.positionId = p.positionId
        /\ q.side = p.side
        /\ q.avgPrice = p.avgPrice
        /\ q.qty = Sub(p.qty, fill.qty)
        /\ q.realizedPnl = Add(p.realizedPnl, pnl)
        /\ Balance(u)'.realizedPnl = Add(Balance(u).realizedPnl, pnl)
        /\ Balance(u)'.USDT = Sub(Add(Balance(u).USDT, pnl), fill.fee)

C17_PartialClose ==
    [][\A u \in DOMAIN users :
          (/\ OneFill(u)
           /\ positions[u] # <<>>
           /\ TheFill(u).side # positions[u][1].side
           /\ Lt(TheFill(u).qty, positions[u][1].qty)) =>
              PartiallyClosedAsStated(u)
      ]_vars

\* a position of 2 reduced to 1 at a price other than its average price,
\* with the realized PnL in the user's balance
C17_Witness ==
    \E u \in DOMAIN users :
        LET th == users[u].tradeHistory
        IN  /\ Len(th) = 2
            /\ th[1].side # th[2].side
            /\ Lt(th[2].qty, th[1].qty)
            /\ th[1].price # th[2].price
            /\ Len(positions[u]) = 1
            /\ positions[u][1].side = th[1].side
            /\ positions[u][1].avgPrice = th[1].price
            /\ positions[u][1].qty = Sub(th[1].qty, th[2].qty)
            /\ Balance(u).realizedPnl =
                  StatedPnl(th[1].side, th[1].price, th[2].price, th[2].qty)
            /\ Balance(u).realizedPnl # Zero

\* ------------------------------------------------------------------------
\* C18: an opposite-side, non-reduce-only fill with orderQty > positionQty
\* flips the position: PnL is realized on the old positionQty at
\* order.price and credited to cash, and the resulting position has the
\* order's side, qty = orderQty - positionQty, avgPrice = order.price and
\* realizedPnl reset to 0.
\* ------------------------------------------------------------------------
FlippedAsStated(u) ==
    LET p == positions[u][1]
        fill == TheFill(u)
        q == positions'[u][1]
        pnl == StatedPnl(p.side, p.avgPrice, fill.price, p.qty)
    IN  /\ Len(positions'[u]) = 1
        /\ q.side = fill.side
        /\ q.qty = Sub(fill.qty, p.qty)
        /\ q.avgPrice = fill.price
        /\ q.realizedPnl = Zero
        /\ Balance(u)'.realizedPnl = Add(Balance(u).realizedPnl, pnl)
        /\ Balance(u)'.USDT = Sub(Add(Balance(u).USDT, pnl), fill.fee)

C18_Flip ==
    [][\A u \in DOMAIN users :
          (/\ OneFill(u)
           /\ positions[u] # <<>>
           /\ ~FilledOrderOf(u).reduceOnly
           /\ TheFill(u).side # positions[u][1].side
           /\ Lt(positions[u][1].qty, TheFill(u).qty)) => FlippedAsStated(u)
      ]_vars

\* a position of 1 flipped by an order of 2 at another price, with the
\* PnL of the closed quantity in the user's balance
C18_Witness ==
    \E u \in DOMAIN users :
        LET th == users[u].tradeHistory
        IN  /\ Len(th) = 2
            /\ th[1].side # th[2].side
            /\ Lt(th[1].qty, th[2].qty)
            /\ th[1].price # th[2].price
            /\ ~orderObjs[th[2].orderId].reduceOnly
            /\ Len(positions[u]) = 1
            /\ positions[u][1].side = th[2].side
            /\ positions[u][1].avgPrice = th[2].price
            /\ positions[u][1].qty = Sub(th[2].qty, th[1].qty)
            /\ positions[u][1].realizedPnl = Zero
            /\ Balance(u).realizedPnl =
                  StatedPnl(th[1].side, th[1].price, th[2].price, th[1].qty)
            /\ Balance(u).realizedPnl # Zero

\* ------------------------------------------------------------------------
\* C19: an admitted Market order is filled synchronously within createOrder
\* at the feed price current at admission: it is returned with status
\* Filled, filledQty = qty and avgPrice = that price, its position effect is
\* applied in the same step, and it never appears in the pending set; a
\* Market Buy with no position opens a position with that qty and avgPrice.
\* ------------------------------------------------------------------------
\* the step is a createOrder or closePosition call that returned a Market
\* order
ReturnedMarket ==
    /\ result'.op \in {"createOrder", "closePosition"}
    /\ result'.error = ""
    /\ orderObjs'[result'.ret].orderType = "Market"

FilledAtFeedPrice(o) ==
    /\ o.status = "Filled"
    /\ o.price = currentPrice
    /\ o.avgPrice = currentPrice
    /\ o.filledQty = o.qty

OpenedAsStated(o) ==
    (positions[o.userId] = <<>> /\ ~o.reduceOnly) =>
        /\ Len(positions'[o.userId]) = 1
        /\ positions'[o.userId][1].side = o.side
        /\ positions'[o.userId][1].qty = o.qty
        /\ positions'[o.userId][1].avgPrice = currentPrice

FilledInTheCall(o) ==
    /\ o.orderId \notin DOMAIN orderObjs
    /\ o.userId = result'.userId
    /\ FilledAtFeedPrice(o)
    /\ OneFill(o.userId)
    /\ TheFill(o.userId).orderId = o.orderId
    /\ TheFill(o.userId).price = currentPrice
    /\ TheFill(o.userId).qty = o.qty
    /\ EmittedFor(emitted', "orderFilled", o.orderId) # {}
    /\ OpenedAsStated(o)

C19_MarketFilledInCreate ==
    [][/\ ReturnedMarket => FilledInTheCall(orderObjs'[result'.ret])
       /\ \A id \in DOMAIN orderObjs' :
             orderObjs'[id].orderType = "Market" =>
                /\ orderObjs'[id].status = "Filled"
                /\ id \notin PendingIn(orders', orderObjs'[id].userId)
      ]_vars

\* a Market Buy admitted after the feed price moved, filled at that price
\* and opening the position
C19_Witness ==
    /\ result.op = "createOrder"
    /\ result.error = ""
    /\ currentPrice # Num(InitialPrice)
    /\ LET o == orderObjs[result.ret]
       IN  /\ o.orderType = "Market"
           /\ o.side = "Buy"
           /\ o.status = "Filled"
           /\ o.avgPrice = currentPrice
           /\ TradesOf(users, o.userId, o.orderId) = {1}
           /\ Len(positions[o.userId]) = 1
           /\ positions[o.userId][1].qty = o.qty
           /\ positions[o.userId][1].avgPrice = currentPrice

\* ------------------------------------------------------------------------
\* C20: every fill (Market, Limit, reduce-only close, liquidation) debits
\* exactly one fee = qty * price * feeRate from the cash balance, at the
\* taker rate for Market and the maker rate for Limit orders, and the cash
\* balance changes through nothing but fee debits and realized-PnL credits:
\* in every state USDT = initialBalance + realizedPnl - sum of the fees of
\* the user's fills.
\* ------------------------------------------------------------------------
RECURSIVE SumFees(_, _)
SumFees(th, i) == IF i > Len(th) THEN Zero ELSE Add(th[i].fee, SumFees(th, i + 1))

StatedFee(t, orderType) ==
    Mul(Mul(t.qty, t.price), IF orderType = "Market" THEN takerFee ELSE makerFee)

OneFeePerFill(u) ==
    /\ \A i \in 1..Len(users[u].tradeHistory) :
          LET t == users[u].tradeHistory[i]
          IN  /\ t.orderId \in DOMAIN orderObjs
              /\ orderObjs[t.orderId].status = "Filled"
              /\ t.fee = StatedFee(t, orderObjs[t.orderId].orderType)
              /\ TradesOf(users, u, t.orderId) = {i}
    /\ \A id \in DOMAIN orderObjs :
          (orderObjs[id].userId = u /\ orderObjs[id].status = "Filled") =>
              TradesOf(users, u, id) # {}

C20_CashLedger ==
    \A u \in DOMAIN users :
        /\ OneFeePerFill(u)
        /\ Balance(u).USDT =
              Sub(Add(Num(initialBalance), Balance(u).realizedPnl),
                  SumFees(users[u].tradeHistory, 1))

\* a Limit fill at the maker rate followed by a reduce-only Market close at
\* the taker rate, with a realized loss
C20_Witness ==
    \E u \in DOMAIN users :
        LET th == users[u].tradeHistory
        IN  /\ Len(th) = 2
            /\ orderObjs[th[1].orderId].orderType = "Limit"
            /\ orderObjs[th[2].orderId].orderType = "Market"
            /\ orderObjs[th[2].orderId].reduceOnly
            /\ Lt(Balance(u).realizedPnl, Zero)
            /\ Lt(Zero, th[1].fee)
            /\ Lt(Zero, th[2].fee)

\* ------------------------------------------------------------------------
\* C21: a liquidation closes the full position through the ordinary fill
\* path (a reduce-only opposite Market order at the tick price: realized PnL
\* credited, fee debited, trade recorded, position removed), the removed
\* position is not evaluated for liquidation again on that or a later tick,
\* and exactly one liquidation event {userId, positionId, loss} is emitted
\* per liquidated position, after the position has been closed.
\* ------------------------------------------------------------------------
\* the trade records of the step that close position p of user u in full at
\* the given price through a reduce-only opposite Market order
ClosingFills(u, p, price) ==
    {i \in NewTrades(u) :
        LET t == users'[u].tradeHistory[i]
            o == orderObjs'[t.orderId]
        IN  /\ o.reduceOnly
            /\ o.orderType = "Market"
            /\ o.status = "Filled"
            /\ o.side = (IF p.side = "Buy" THEN "Sell" ELSE "Buy")
            /\ t.qty = p.qty
            /\ t.price = price
            /\ t.fee = Mul(Mul(p.qty, price), takerFee)}

\* the orderFilled event of a closing fill precedes the event at index k
ClosedBefore(u, p, price, k) ==
    \E i \in ClosingFills(u, p, price) : \E j \in 1..(k - 1) :
        /\ emitted'[j].type = "orderFilled"
        /\ emitted'[j].id = users'[u].tradeHistory[i].orderId

\* the liquidation event at index k of the step's events reports position p
\* of the pre-state, closed as stated
LiquidatedAsStated(k, u, p) ==
    /\ emitted'[k].loss = PnlAt(p, currentPrice')
    /\ Cardinality(ClosingFills(u, p, currentPrice')) = 1
    /\ ClosedBefore(u, p, currentPrice', k)
    /\ ~HasPosition(positions'[u], p.positionId)
    /\ \A j \in 1..Len(emitted') :
          (emitted'[j].type = "liquidation" /\ emitted'[j].id = p.positionId)
              => j = k
    /\ OneFill(u) =>
          /\ users'[u].balance.realizedPnl =
                Add(Balance(u).realizedPnl, PnlAt(p, currentPrice'))
          /\ users'[u].balance.USDT =
                Sub(Add(Balance(u).USDT, PnlAt(p, currentPrice')), TheFill(u).fee)

C21_LiquidationClosesOnce ==
    [][\A k \in 1..Len(emitted') :
          emitted'[k].type = "liquidation" =>
             /\ Ticked'
             /\ emitted'[k].userId \in DOMAIN users
             /\ \E i \in 1..Len(positions[emitted'[k].userId]) :
                   LET p == positions[emitted'[k].userId][i]
                   IN  /\ p.positionId = emitted'[k].id
                       /\ LiquidatedAsStated(k, emitted'[k].userId, p)
      ]_vars

\* a tick liquidated a position: its closing fill is the user's last trade
\* and the liquidation event follows the fill's events
C21_Witness ==
    /\ Ticked
    /\ \E k \in Emitted("liquidation") : \E j \in 1..(k - 1) :
          LET u == emitted[k].userId
              th == users[u].tradeHistory
          IN  /\ Len(th) = 2
              /\ emitted[j].type = "orderFilled"
              /\ emitted[j].id = th[2].orderId
              /\ orderObjs[th[2].orderId].reduceOnly
              /\ th[2].price = currentPrice
              /\ positions[u] = <<>>
              /\ Lt(emitted[k].loss, Zero)
              /\ Balance(u).realizedPnl = emitted[k].loss

\* ------------------------------------------------------------------------
\* C22: closePosition fails with PositionNotFound whenever the given
\* positionId is not an open position of the given user (also when the user
\* id is unknown or the position belongs to another user) and with
\* CloseExceedsSize when qty > position.qty; in both cases no order is
\* created and ledger, positions and trade history are unchanged.
\* ------------------------------------------------------------------------
\* the open position of the user with that id, as a set of indices
OpenPositions(userId, positionId) ==
    IF userId \in DOMAIN positions
    THEN {i \in 1..Len(positions[userId]) :
             positions[userId][i].positionId = positionId}
    ELSE {}

CloseRejectedAsStated(userId, positionId, closeQty) ==
    /\ OpenPositions(userId, positionId) = {} =>
          closePosition(Engine, userId, positionId, closeQty)
              = Failed(Engine, ErrPositionNotFound)
    /\ \A i \in OpenPositions(userId, positionId) :
          Lt(positions[userId][i].qty, closeQty) =>
              closePosition(Engine, userId, positionId, closeQty)
                  = Failed(Engine, ErrCloseExceeds)

\* a closePosition call that threw created no order and changed nothing
CloseRejectedUnchanged ==
    (result'.op = "closePosition" /\ result'.error # "") =>
        /\ result'.error \in {ErrPositionNotFound, ErrCloseExceeds}
        /\ result'.ret = 0
        /\ emitted' = <<>>
        /\ UNCHANGED <<users, userKeys, positions, orders, orderObjs,
                       currentPrice, uuid>>

C22_CloseRejections ==
    /\ [](\A userId \in UserIds : \A positionId \in 1..(uuid + 1) :
             \A closeQty \in CloseQtys :
                 CloseRejectedAsStated(userId, positionId, closeQty))
    /\ [][CloseRejectedUnchanged]_vars

\* ------------------------------------------------------------------------
\* C23: order ids are pairwise distinct and position ids are pairwise
\* distinct over the engine's whole lifetime; in particular the position
\* opened by a flip and a position opened after a full close never reuse the
\* id of an earlier position.
\* ------------------------------------------------------------------------
\* every id issued so far is at most uuid, so an id above the uuid of the
\* pre-state was never used before the step

\* position p of user u in the post-state was opened by the step: no position
\* of the pre-state continues in it (a flip opens a position of the other
\* side)
OpenedByStep(u, p) ==
    \/ u \notin DOMAIN positions
    \/ \A i \in 1..Len(positions[u]) :
          \/ positions[u][i].positionId # p.positionId
          \/ positions[u][i].side # p.side

AllPositions(ps) ==
    {<<u, i>> \in (DOMAIN ps) \X (1..1) : i <= Len(ps[u])}

C23_IdsNeverReused ==
    /\ [](\A a, b \in AllPositions(positions) :
             positions[a[1]][a[2]].positionId = positions[b[1]][b[2]].positionId
                 => a = b)
    /\ [][/\ \A id \in (DOMAIN orderObjs') \ (DOMAIN orderObjs) : id > uuid
          /\ \A u \in DOMAIN positions' : \A i \in 1..Len(positions'[u]) :
                OpenedByStep(u, positions'[u][i])
                    => positions'[u][i].positionId > uuid
         ]_vars

CommandActions == {"place_order", "cancel_order", "close_position"}

EngineCommands == {"createOrder", "cancelOrder", "closePosition"}

\* the step handled a command or a guarded query of a session that was not
\* authenticated when the message arrived
FromUnauthenticated ==
    /\ inbound'.action \in CommandActions \cup GuardedActions
    /\ ~clients[inbound'.clientId].authenticated

AnsweredUnauthorized ==
    /\ sent' = <<Message(inbound'.clientId, "error", "UNAUTHORIZED")>>
    /\ result'.op \notin EngineCommands
    /\ emitted' = <<>>
    /\ UNCHANGED engineVars
    /\ UNCHANGED <<clients, authWaiting>>

\* the step called the engine for a session
CommandOfSession ==
    /\ inbound'.clientId \in DOMAIN clients
    /\ result'.op \in EngineCommands

CarriesProvisionedUser ==
    /\ inbound'.action \in CommandActions
    /\ clients[inbound'.clientId].authenticated
    /\ result'.userId = clients[inbound'.clientId].userId
    /\ result'.userId \in DOMAIN users
    /\ result'.error \notin {ErrUserNotFound, ErrTypeError}

C25_UnauthenticatedNeverCommands ==
    [][/\ FromUnauthenticated =>
             (clients[inbound'.clientId].readyState = "OPEN" => AnsweredUnauthorized)
       /\ FromUnauthenticated => result'.op \notin EngineCommands /\ UNCHANGED engineVars
       /\ CommandOfSession => CarriesProvisionedUser
      ]_vars

\* a place_order that arrived while the session's auth was suspended at the
\* provisioning of its user, answered UNAUTHORIZED
C25_Witness ==
    /\ inbound.action = "place_order"
    /\ result.error = "UNAUTHORIZED"
    /\ sent = <<Message(inbound.clientId, "error", "UNAUTHORIZED")>>
    /\ \E w \in authWaiting :
          /\ w.clientId = inbound.clientId
          /\ w.userId \in DOMAIN users

\* ------------------------------------------------------------------------
\* C26: authentication provisions idempotently: auth with an absent or
\* unknown user id creates exactly one ledger with the configured initial
\* balance, and auth with a known user id (from any number of sessions, in
\* any interleaving) attaches the session without creating a second ledger
\* and without changing that user's balance, positions, pending orders or
\* trade history.
\* ------------------------------------------------------------------------
\* the step handled an auth message carrying userId
AuthOf(userId) == inbound'.action = "auth" /\ inbound'.arg = {userId}

\* the engine holds the same users with the same ledgers, positions and
\* pending orders
LedgersKept ==
    \A u \in DOMAIN users :
        /\ u \in DOMAIN users'
        /\ users'[u] = users[u]
        /\ positions'[u] = positions[u]
        /\ orders'[u] = orders[u]

\* exactly one ledger was created, for user u, with the initial balance
OneLedgerCreated(u) ==
    /\ DOMAIN users' = (DOMAIN users) \cup {u}
    /\ users'[u].balance.USDT = Num(initialBalance)
    /\ users'[u].balance.availableBalance = Num(initialBalance)
    /\ users'[u].balance.totalEquity = Num(initialBalance)
    /\ users'[u].balance.marginUsed = Zero
    /\ users'[u].tradeHistory = <<>>
    /\ positions'[u] = <<>>
    /\ orders'[u] = <<>>
    /\ userKeys' = Append(userKeys, u)

AuthAsStated(userId) ==
    IF userId \in DOMAIN users
    THEN /\ UNCHANGED engineVars
         /\ clients'[inbound'.clientId].userId = userId
         /\ clients'[inbound'.clientId].authenticated
    ELSE /\ LedgersKept
         /\ UNCHANGED orderObjs
         /\ \E u \in (DOMAIN users') \ (DOMAIN users) : OneLedgerCreated(u)
         /\ userId # NoUser => userId \in DOMAIN users'

\* the continuation of a suspended auth attaches the session and leaves the
\* engine alone
ResumedAsStated ==
    (result'.op = "auth" /\ inbound' = NoInbound) =>
        /\ UNCHANGED engineVars
        /\ \A c \in DOMAIN clients' : clients'[c].userId # NoUser =>
              clients'[c].userId \in DOMAIN users

C26_AuthProvisionsOnce ==
    /\ [](Len(userKeys) = Cardinality(DOMAIN users))
    /\ [][/\ \A userId \in AuthIds : AuthOf(userId) => AuthAsStated(userId)
          /\ ResumedAsStated
         ]_vars

\* a second session attached to a user who holds a position or a pending
\* order, and whose ledger has moved off the initial balance or who has an
\* order pending
C26_Witness ==
    /\ inbound.action = "auth"
    /\ result.op = "auth"
    /\ \E c \in DOMAIN clients :
          /\ c # inbound.clientId
          /\ clients[c].userId = result.userId
          /\ clients[inbound.clientId].userId = result.userId
          /\ \/ positions[result.userId] # <<>>
             \/ orders[result.userId] # <<>>

\* ------------------------------------------------------------------------
\* C27: a channel broadcast is delivered to a session if and only if, at
\* delivery time, the session is connected and open and its subscription
\* set contains the channel; subscribe adds the named channels to the
\* session's set and unsubscribe removes them; closed or non-subscribed
\* sessions are skipped and never prevent delivery to the remaining
\* subscribed sessions.
\* ------------------------------------------------------------------------
\* how many times the message was written to the socket of session k
Delivered(out, k, type, info) ==
    Cardinality({i \in 1..Len(out) : out[i] = Message(k, type, info)})

Eligible(k, channel) ==
    /\ k \in DOMAIN clients
    /\ clients[k].readyState = "OPEN"
    /\ channel \in clients[k].subscriptions

BroadcastAsStated(channel) ==
    /\ \A k \in ClientIds :
          Delivered(sent', k, "broadcast", channel)
              = IF Eligible(k, channel) THEN 1 ELSE 0
    /\ Len(sent') = Cardinality({k \in ClientIds : Eligible(k, channel)})
    /\ UNCHANGED clients

\* the subscription sets after a subscribe or unsubscribe message from c
SubscriptionsAsStated(c) ==
    /\ DOMAIN clients' = DOMAIN clients
    /\ \A k \in DOMAIN clients :
          clients'[k].subscriptions =
              IF k # c THEN clients[k].subscriptions
              ELSE IF inbound'.action = "subscribe"
              THEN clients[k].subscriptions \cup inbound'.arg
              ELSE clients[k].subscriptions \ inbound'.arg

\* steps other than subscription messages leave the sets of the sessions
\* that stay connected alone
SubscriptionsKept ==
    \A k \in (DOMAIN clients) \cap (DOMAIN clients') :
        clients'[k].subscriptions = clients[k].subscriptions

C27_BroadcastToSubscribers ==
    [][/\ \A channel \in Channels :
             (inbound'.action = "broadcast" /\ inbound'.arg = {channel})
                 => BroadcastAsStated(channel)
       /\ IF inbound'.action \in {"subscribe", "unsubscribe"} /\ result'.error = ""
          THEN SubscriptionsAsStated(inbound'.clientId)
          ELSE SubscriptionsKept
      ]_vars

\* a broadcast reached a subscribed session although an earlier session of
\* the connection map was skipped: subscribed but closing, or open but
\* unsubscribed after having subscribed
C27_Witness ==
    /\ inbound.action = "broadcast"
    /\ Len(clientKeys) = 2
    /\ inbound.arg \subseteq clients[clientKeys[1]].subscriptions
    /\ clients[clientKeys[1]].readyState = "CLOSING"
    /\ sent = <<Message(clientKeys[2], "broadcast", CHOOSE ch \in inbound.arg : TRUE)>>

\* ------------------------------------------------------------------------
\* C28: per session, at most messageRateLimit inbound messages are accepted
\* for handling within one fixed window, which opens with the first message
\* counted and lasts until the instant RateWindow milliseconds later,
\* inclusive; every further message in that window is answered with a
\* rate-limit error, is not handled and does not close the connection, and
\* the counter restarts with the first message after the window.
\* ------------------------------------------------------------------------
\* the session's window is still running
InWindow(c) == c \in DOMAIN rateLimits /\ now <= rateLimits[c].resetTime

\* the messages of session c accepted in the running window
AcceptedInWindow(c) == IF InWindow(c) THEN rateLimits[c].messages ELSE 0

\* the message of c was handled and counted
CountedAsStated(c) ==
    /\ result'.error # "RATE_LIMIT"
    /\ sent' = sendToClient(clients, c, ReplyType(inbound'.action), "")
    /\ rateLimits'[c].messages = AcceptedInWindow(c) + 1
    /\ rateLimits'[c].resetTime =
           IF InWindow(c) THEN rateLimits[c].resetTime ELSE now + RateWindow

\* the message of c was answered with the error and nothing else happened
RateLimitedAsStated(c) ==
    /\ result'.error = "RATE_LIMIT"
    /\ sent' = sendToClient(clients, c, "error", "RATE_LIMIT")
    /\ UNCHANGED <<clients, clientKeys, rateLimits, authWaiting>>
    /\ UNCHANGED engineVars

\* the counters move with the session's own messages only
CountersKept ==
    \A c \in (DOMAIN rateLimits) \cap (DOMAIN clients') :
        c # inbound'.clientId =>
            (c \in DOMAIN rateLimits' /\ rateLimits'[c] = rateLimits[c])

C28_FixedWindowRateLimit ==
    /\ [](\A c \in DOMAIN rateLimits :
             rateLimits[c].messages \in 1..messageRateLimit)
    /\ [][/\ \A c \in ClientIds : inbound'.clientId = c =>
                 IF AcceptedInWindow(c) < messageRateLimit
                 THEN CountedAsStated(c)
                 ELSE RateLimitedAsStated(c)
          /\ CountersKept
         ]_vars

\* a message was refused at the last instant of a full window and the
\* session is still connected and open
C28_Witness ==
    /\ result.error = "RATE_LIMIT"
    /\ inbound.clientId \in DOMAIN clients
    /\ clients[inbound.clientId].readyState = "OPEN"
    /\ rateLimits[inbound.clientId].messages = messageRateLimit
    /\ now = rateLimits[inbound.clientId].resetTime
    /\ now > 0

\* ------------------------------------------------------------------------
\* C29: at every heartbeat a probe is sent to every open session, every
\* session with no observed activity for longer than the inactivity window
\* is forcibly closed, and a session whose activity (a pong or an inbound
\* message) was observed within the window is not closed by the heartbeat.
\* ------------------------------------------------------------------------
Later(a, b) == IF a >= b THEN a ELSE b

\* an instant at which activity of session c was observed for certain: its
\* connection or last pong, or the message that opened its rate window
ObservedAt(c) ==
    IF c \in DOMAIN rateLimits
    THEN Later(clients[c].lastActivity, rateLimits[c].resetTime - RateWindow)
    ELSE clients[c].lastActivity

\* an instant after which no activity of session c was observed: the
\* messages of a rate window arrive before the window ends
SilentSince(c) ==
    IF c \in DOMAIN rateLimits
    THEN Later(clients[c].lastActivity, rateLimits[c].resetTime)
    ELSE clients[c].lastActivity

ProbedAsStated(c) ==
    /\ Delivered(sent', c, "ping", "") = 1
    /\ now - SilentSince(c) > InactivityWindow
           => clients'[c].readyState = "CLOSING"
    /\ now - ObservedAt(c) <= InactivityWindow
           => clients'[c].readyState = "OPEN"

C29_HeartbeatClosesInactive ==
    [][result'.op = "heartbeat" =>
          /\ \A c \in DOMAIN clients :
                IF clients[c].readyState = "OPEN" THEN ProbedAsStated(c)
                ELSE /\ Delivered(sent', c, "ping", "") = 0
                     /\ clients'[c] = clients[c]
          /\ Len(sent') = Cardinality({c \in DOMAIN clients : IsOpen(clients, c)})
      ]_vars

\* the heartbeat as the code has it: inactivity is measured from the
\* connection or the last pong alone
HeartbeatFromPongs ==
    [][result'.op = "heartbeat" =>
          \A c \in DOMAIN clients :
              clients'[c].readyState =
                  IF /\ clients[c].readyState = "OPEN"
                     /\ now - clients[c].lastActivity > InactivityWindow
                  THEN "CLOSING"
                  ELSE clients[c].readyState
      ]_vars

\* ------------------------------------------------------------------------
\* C30: an engine-originated per-user event (order_created, order_filled,
\* order_cancelled, position_update, balance_update, liquidation) for user
\* U is sent, one message per event and in the step that emits it, to every
\* open session currently associated with U and to no session associated
\* with another user or with no user.
\* ------------------------------------------------------------------------
PerUserTypes ==
    {"order_created", "order_filled", "order_cancelled", "position_update",
     "balance_update", "liquidation"}

\* the users a session can be associated with
SessionUsers == (AuthIds \ {NoUser}) \cup Range(GeneratedIds)

\* how many events of the type the engine emitted for user u
EventsFor(em, type, u) ==
    Cardinality({i \in 1..Len(em) :
                    ListenerType(em[i].type) = type /\ em[i].userId = u})

AssociatedWith(k, u) ==
    /\ k \in DOMAIN clients
    /\ clients[k].readyState = "OPEN"
    /\ clients[k].userId = u

DeliveredAsStated(k, u, type) ==
    Delivered(sent', k, type, u)
        = IF AssociatedWith(k, u) THEN EventsFor(emitted', type, u) ELSE 0

C30_EventsToOwnSessions ==
    [][(sent' # <<>> \/ emitted' # <<>>) =>
           \A k \in ClientIds : \A u \in SessionUsers : \A type \in PerUserTypes :
               DeliveredAsStated(k, u, type)
      ]_vars

\* a liquidation was delivered to the session of the liquidated user while
\* the open session of another user received the update of its own balance
\* and nothing that belongs to the liquidated user
C30_Witness ==
    \E k \in DOMAIN clients, o \in DOMAIN clients :
        /\ k # o
        /\ clients[k].userId \in SessionUsers
        /\ clients[o].userId \in SessionUsers \ {clients[k].userId}
        /\ clients[o].readyState = "OPEN"
        /\ Delivered(sent, k, "liquidation", clients[k].userId) = 1
        /\ Delivered(sent, o, "balance_update", clients[o].userId) = 1
        /\ \A i \in 1..Len(sent) :
              sent[i].to = o => sent[i].info = clients[o].userId

\* ------------------------------------------------------------------------
\* C31: for every liquidation, the anonymized broadcast on the aggregate
\* liquidations channel carries the liquidated position's side, qty and
\* loss and does not carry the user id.
\* ------------------------------------------------------------------------
\* the position of user u with the id, as it was before the step
PositionBefore(u, id) ==
    CHOOSE p \in Range(positions[u]) : p.positionId = id

\* the broadcast the claim describes, as written to session k
LiquidationBroadcast(k, side, qty, loss) ==
    [to |-> k, type |-> "broadcast", info |-> "liquidations",
     data |-> [side |-> side, qty |-> qty, loss |-> loss]]

OnLiquidationFeed(m) ==
    m.type = "broadcast" /\ m.info = "liquidations" /\ "data" \in DOMAIN m

C31_AnonymizedLiquidationFeed ==
    [][/\ \A i \in 1..Len(emitted') :
             emitted'[i].type = "liquidation" =>
                 \A k \in ClientIds :
                     Eligible(k, "liquidations") =>
                         \E j \in 1..Len(sent') :
                             sent'[j] = LiquidationBroadcast(k,
                                 PositionBefore(emitted'[i].userId, emitted'[i].id).side,
                                 PositionBefore(emitted'[i].userId, emitted'[i].id).qty,
                                 emitted'[i].loss)
       /\ \A j \in 1..Len(sent') :
             OnLiquidationFeed(sent'[j]) => "userId" \notin DOMAIN sent'[j].data
      ]_vars

\* the parts of the claim that the code keeps: every subscriber of the
\* channel receives one broadcast per liquidation, which carries the loss
\* of the liquidation event and no user id
LiquidationFeedCarriesLoss ==
    [][\A i \in 1..Len(emitted') :
           emitted'[i].type = "liquidation" =>
               \A k \in ClientIds :
                   Eligible(k, "liquidations") =>
                       \E j \in 1..Len(sent') :
                           /\ sent'[j].to = k
                           /\ OnLiquidationFeed(sent'[j])
                           /\ sent'[j].data = [loss |-> emitted'[i].loss]
      ]_vars

\* ------------------------------------------------------------------------
\* C32: after a shutdown signal the process always terminates within the
\* bounded grace period (a single hard timeout that a later signal does not
\* move), even if connected sessions never disconnect on their own;
\* remaining sessions are force-closed no later than that timeout.
\* ------------------------------------------------------------------------
Earliest(S) == CHOOSE d \in S : \A e \in S : d <= e

ShutdownRequested == exitTimers # {}

\* the end of the grace period that the first signal started
GraceEnd == Earliest(exitTimers)

C32_ShutdownTerminates ==
    /\ [](ShutdownRequested /\ exitCode = "" => now <= GraceEnd)
    /\ [](exitCode # "" => clients = <<>> /\ now <= GraceEnd)
    /\ [][ShutdownRequested =>
             /\ exitTimers' # {}
             /\ Earliest(exitTimers') = GraceEnd
             /\ ~listening'
         ]_vars
    /\ (ShutdownRequested ~> exitCode # "")

\* the forced exit ended the process at the end of the grace period of the
\* first of two signals, with a session that had not disconnected
C32_Witness ==
    /\ exitCode = "1"
    /\ result.op = "exit"
    /\ result.ret >= 1
    /\ Cardinality(exitTimers) = 2
    /\ now = GraceEnd

\* ------------------------------------------------------------------------
\* C33: session disconnect (client close or heartbeat-forced close) removes
\* only the session entry and its rate-limit counters and leaves engine
\* state unchanged: users are never deleted, and a disconnected user's
\* balance, open positions and pending Limit orders persist and continue to
\* be marked, liquidated and filled on later ticks.
\* ------------------------------------------------------------------------
\* the step was the 'close' event of the socket of session c
DisconnectedAsStated(c) ==
    /\ clients' = [k \in (DOMAIN clients) \ {c} |-> clients[k]]
    /\ rateLimits' = [k \in (DOMAIN rateLimits) \ {c} |-> rateLimits[k]]
    /\ Len(clientKeys') = Len(clientKeys) - 1
    /\ UNCHANGED engineVars
    /\ UNCHANGED authWaiting
    /\ sent' = <<>>

\* no session is associated with user u
Detached(u) == \A k \in DOMAIN clients : clients[k].userId # u

\* the tick treated the positions and pending orders of user u; of the
\* pending orders that the price crosses, the first in the array is the one
\* looked at here
TickedAsStated(u) ==
    /\ \A i \in 1..Len(positions'[u]) :
          /\ positions'[u][i].markPrice = currentPrice'
          /\ positions'[u][i].unrealizedPnl
                 = calculatePnl(positions'[u][i], currentPrice', NoQty)
    /\ \A i \in 1..Len(positions[u]) :
          ShouldLiquidate(positions[u][i].maintenanceMargin,
                          Add(users[u].balance.USDT,
                              calculatePnl(positions[u][i], currentPrice', NoQty)))
              => /\ \A j \in 1..Len(positions'[u]) :
                       positions'[u][j].positionId # positions[u][i].positionId
                 /\ Liquidated(emitted', u, positions[u][i].positionId)
    /\ \A i \in 1..Len(orders[u]) :
          (/\ orderObjs[orders[u][i]].status = "New"
           /\ ShouldFill(orderObjs[orders[u][i]], currentPrice')
           /\ \A j \in 1..(i - 1) :
                 ~ShouldFill(orderObjs[orders[u][j]], currentPrice'))
              => /\ orderObjs'[orders[u][i]].status = "Filled"
                 /\ orders[u][i] \notin Range(orders'[u])
                 /\ TradesOf(users', u, orders[u][i]) # {}
    /\ \A i \in 1..Len(orders[u]) :
          (/\ orderObjs[orders[u][i]].status = "New"
           /\ ~ShouldFill(orderObjs[orders[u][i]], currentPrice'))
              => /\ orderObjs'[orders[u][i]] = orderObjs[orders[u][i]]
                 /\ orders[u][i] \in Range(orders'[u])

C33_DisconnectKeepsLedger ==
    [][/\ result'.op = "close" =>
             \E c \in DOMAIN clients : DisconnectedAsStated(c)
       /\ DOMAIN users \subseteq DOMAIN users'
       /\ result'.op = "updateCurrentPrice" =>
             \A u \in DOMAIN users : Detached(u) => TickedAsStated(u)
      ]_vars

\* the pending Limit order of a user whose session has disconnected was
\* filled by a tick
C33_Witness ==
    /\ result.op = "updateCurrentPrice"
    /\ clients = <<>>
    /\ \E u \in DOMAIN users :
          /\ positions[u] # <<>>
          /\ \E id \in DOMAIN orderObjs :
                /\ orderObjs[id].userId = u
                /\ orderObjs[id].orderType = "Limit"
                /\ orderObjs[id].status = "Filled"

\* a tick liquidated the position of a user whose session has disconnected
DetachedLiquidated ==
    /\ result.op = "updateCurrentPrice"
    /\ clients = <<>>
    /\ \E i \in 1..Len(emitted) : emitted[i].type = "liquidation"

\* ------------------------------------------------------------------------
\* C34: engine commands and ticks are serialized: no tick or other command
\* runs between createOrder's balance validation and the resulting Market
\* fill, nor between closePosition's validation and its closing fill, and
\* each updateCurrentPrice pass (marking, liquidation closes, equity
\* recompute, pending-order scan) completes before any other command or
\* tick mutates engine state.  No state between two operations shows a
\* validated Market order that is not filled, a close that has not been
\* applied, or a pass that is half done.
\* ------------------------------------------------------------------------
\* no admitted Market order waits for its fill
NoMarketInFlight ==
    \A id \in DOMAIN orderObjs :
        orderObjs[id].orderType = "Market" =>
            /\ orderObjs[id].status = "Filled"
            /\ TradesOf(users, orderObjs[id].userId, id) # {}
            /\ id \notin PendingIn(orders, orderObjs[id].userId)

\* the close that the call validated is applied when the call returns
CloseApplied(o) ==
    /\ o.status = "Filled"
    /\ o.reduceOnly
    /\ \E i \in 1..Len(positions[o.userId]) :
          LET p == positions[o.userId][i]
          IN  /\ p.side # o.side
              /\ ~Lt(p.qty, o.qty)
              /\ IF p.qty = o.qty
                 THEN \A j \in 1..Len(positions'[o.userId]) :
                          positions'[o.userId][j].positionId # p.positionId
                 ELSE \E j \in 1..Len(positions'[o.userId]) :
                          /\ positions'[o.userId][j].positionId = p.positionId
                          /\ positions'[o.userId][j].qty = Sub(p.qty, o.qty)

\* the pass over the positions and the pending orders is complete
PassComplete ==
    /\ \A u \in DOMAIN users :
          /\ \E i \in 1..Len(emitted') :
                emitted'[i].type = "balanceUpdate" /\ emitted'[i].userId = u
          /\ \A i \in 1..Len(positions[u]) :
                \A j \in 1..Len(positions'[u]) :
                    (/\ positions'[u][j].positionId = positions[u][i].positionId
                     /\ positions'[u][j].qty = positions[u][i].qty
                     /\ positions'[u][j].side = positions[u][i].side)
                        => positions'[u][j].markPrice = currentPrice'
    /\ \A i \in 1..Len(emitted') :
          emitted'[i].type = "liquidation" =>
              \A j \in 1..Len(positions'[emitted'[i].userId]) :
                  positions'[emitted'[i].userId][j].positionId # emitted'[i].id
    /\ \A id \in DOMAIN orderObjs :
          (orderObjs[id].status = "New" /\ orderObjs'[id].status = "Filled") =>
              /\ id \notin PendingIn(orders', orderObjs[id].userId)
              /\ TradesOf(users', orderObjs[id].userId, id) # {}

C34_OperationsSerialized ==
    /\ []NoMarketInFlight
    /\ [][/\ (result'.op = "closePosition" /\ result'.error = "")
              => CloseApplied(orderObjs'[result'.ret])
          /\ result'.op = "updateCurrentPrice" => PassComplete
         ]_vars

\* a position opened by a Market order, marked by a tick and then closed in
\* part: the close was applied in its call at the price of the tick
C34_Witness ==
    /\ result.op = "closePosition"
    /\ result.error = ""
    /\ currentPrice # Num(InitialPrice)
    /\ orderObjs[result.ret].reduceOnly
    /\ orderObjs[result.ret].avgPrice = currentPrice
    /\ Len(positions[result.userId]) = 1
    /\ positions[result.userId][1].markPrice = currentPrice

\* ------------------------------------------------------------------------
\* C35: a call of processBroadcastQueue (from queueBroadcast or from its
\* timer) takes at most 10 entries, from the head of the queue and in their
\* order, and leaves the rest queued; a call that finds the flag set takes
\* nothing and schedules nothing; when entries remain after a batch exactly
\* one timer is added for them and none of them is handed over in that step.
\* ------------------------------------------------------------------------
\* the queue a call of processBroadcastQueue finds in the step just taken
QueueFound ==
    IF result'.op = "broadcast"
    THEN Append(broadcastQueue,
                QueueEntry(CHOOSE channel \in inbound'.arg : TRUE, NoData))
    ELSE broadcastQueue

\* the timers pending beside the one that runs the step
TimersFound ==
    IF result'.op = "drain" THEN drainTimers - 1 ELSE drainTimers

DrainedAsStated ==
    /\ Len(handed') <= 10
    /\ handed' \o broadcastQueue' = QueueFound
    /\ isBroadcasting =>
        /\ handed' = <<>>
        /\ drainTimers' = TimersFound
    /\ ~isBroadcasting =>
        /\ Len(handed') = Shorter(10, Len(QueueFound))
        /\ ~isBroadcasting'
        /\ drainTimers' = IF broadcastQueue' # <<>> THEN TimersFound + 1
                          ELSE TimersFound

C35_DrainInBatches == [][DrainedAsStated]_vars

\* a batch of 10 has been handed over, entries remain and a timer is pending
C35_Witness ==
    /\ result.op = "broadcast"
    /\ Len(handed) = 10
    /\ broadcastQueue # <<>>
    /\ drainTimers = 1

\* the timer has handed over the entries that remained
RestDrainedLater ==
    /\ result.op = "drain"
    /\ handed # <<>>
    /\ broadcastQueue = <<>>
    /\ drainTimers = 0

\* ------------------------------------------------------------------------
\* C36: every entry given to queueBroadcast is handed to wsManager.broadcast
\* once, in the order of the calls, within the step that queued it: between
\* two steps the queue is empty, no drain is running and none is scheduled,
\* so nothing is lost, repeated or left waiting.
\* ------------------------------------------------------------------------
QueueIdle ==
    /\ broadcastQueue = <<>>
    /\ ~isBroadcasting
    /\ drainTimers = 0

IsLiquidation(e) == e.type = "liquidation"

\* the entries queued by the step just taken, in the order of the calls
QueuedInStep ==
    IF result'.op = "broadcast"
    THEN <<QueueEntry(CHOOSE channel \in inbound'.arg : TRUE, NoData)>>
    ELSE [i \in 1..Len(SelectSeq(emitted', IsLiquidation)) |->
             QueueEntry("liquidations",
                        [loss |-> SelectSeq(emitted', IsLiquidation)[i].loss])]

C36_QueuedBroadcastOnce ==
    /\ []QueueIdle
    /\ [][handed' = QueuedInStep]_vars

\* a feed entry has been handed over and delivered to a subscriber
C36_Witness ==
    /\ result.op = "broadcast"
    /\ Len(handed) = 1
    /\ handed[1].channel \in inbound.arg
    /\ \E i \in 1..Len(sent) : sent[i].type = "broadcast"
    /\ QueueIdle

\* a liquidation notice has been handed over
NoticeHandedOver ==
    /\ Emitted("liquidation") # {}
    /\ Len(handed) = 1
    /\ handed[1].channel = "liquidations"

\* ------------------------------------------------------------------------
\* C37: between engine operations every order in a user's pending array is
\* a Limit order of that user with status New; a Market order is in no
\* pending array; an order that a step fills or cancels is out of the
\* pending array after that step.
\* ------------------------------------------------------------------------
PendingNewLimit ==
    /\ \A u \in DOMAIN orders : \A i \in 1..Len(orders[u]) :
          /\ orders[u][i] \in DOMAIN orderObjs
          /\ orderObjs[orders[u][i]].orderType = "Limit"
          /\ orderObjs[orders[u][i]].status = "New"
          /\ orderObjs[orders[u][i]].userId = u
    /\ \A id \in DOMAIN orderObjs :
          orderObjs[id].orderType = "Market" =>
              \A u \in DOMAIN orders : id \notin PendingIn(orders, u)

LeavesWhenSettled ==
    \A id \in DOMAIN orderObjs' :
        (/\ orderObjs'[id].status \in {"Filled", "Cancelled"}
         /\ (id \in DOMAIN orderObjs => orderObjs[id].status = "New"))
        => \A u \in DOMAIN orders' : id \notin PendingIn(orders', u)

C37_PendingOnlyNewLimit ==
    /\ []PendingNewLimit
    /\ [][LeavesWhenSettled]_vars

\* a tick has filled one pending Limit order and left another pending
C37_Witness ==
    /\ Ticked
    /\ \E id \in DOMAIN orderObjs :
          /\ orderObjs[id].orderType = "Limit"
          /\ orderObjs[id].status = "Filled"
          /\ id \notin PendingIn(orders, orderObjs[id].userId)
    /\ \E u \in DOMAIN orders : orders[u] # <<>>

\* ------------------------------------------------------------------------
\* C38: cancelOrder and closePosition called by one user with the id of a
\* pending order or open position of another user fail and change nothing;
\* a command of one user leaves every other user's ledger, trade history,
\* positions, pending orders and order objects as they were; on a tick each
\* user ends up with what the tick gives that user when alone in the engine.
\* ------------------------------------------------------------------------
Rejected(r) == r.error # "" /\ r.E = Engine

CrossUserRejected ==
    \A a \in UserIds : \A b \in (DOMAIN users) \ {a} :
        /\ \A i \in 1..Len(orders[b]) :
              Rejected(cancelOrder(Engine, a, orders[b][i]))
        /\ \A i \in 1..Len(positions[b]) : \A closeQty \in CloseQtys :
              Rejected(closePosition(Engine, a, positions[b][i].positionId, closeQty))

OthersUntouched(a) ==
    \A b \in (DOMAIN users) \ {a} :
        /\ users'[b] = users[b]
        /\ positions'[b] = positions[b]
        /\ orders'[b] = orders[b]
        /\ \A id \in DOMAIN orderObjs :
              orderObjs[id].userId = b => orderObjs'[id] = orderObjs[id]
        /\ \A i \in 1..Len(emitted') : emitted'[i].userId # b

\* the engine with user b alone in it
Alone(E, b) ==
    [E EXCEPT !.users = [u \in {b} |-> E.users[b]],
              !.userKeys = <<b>>,
              !.positions = [u \in {b} |-> E.positions[b]],
              !.orders = [u \in {b} |-> E.orders[b]]]

\* what a user holds, the ids of the trades and positions left aside
Holdings(us, ps, os, b) ==
    [balance |-> us[b].balance,
     trades |-> [i \in 1..Len(us[b].tradeHistory) |->
                    [us[b].tradeHistory[i] EXCEPT !.tradeId = 0, !.orderId = 0]],
     positions |-> [i \in 1..Len(ps[b]) |-> [ps[b][i] EXCEPT !.positionId = 0]],
     pending |-> os[b]]

SameAsAlone(b, R) ==
    /\ Holdings(users', positions', orders', b)
           = Holdings(R.users, R.positions, R.orders, b)
    /\ \A id \in DOMAIN orderObjs :
          orderObjs[id].userId = b => orderObjs'[id] = R.orderObjs[id]

IsolatedAsStated ==
    /\ result'.op \in {"createOrder", "closePosition", "cancelOrder", "initUser"}
          => OthersUntouched(result'.userId)
    /\ result'.op = "updateCurrentPrice" =>
          \A b \in DOMAIN users :
              SameAsAlone(b, updateCurrentPrice(Alone(Engine, b), currentPrice'))

C38_UsersIsolated ==
    /\ []CrossUserRejected
    /\ [][IsolatedAsStated]_vars

\* a market order of one user has been filled while another user holds a
\* position
C38_Witness ==
    /\ result.op = "createOrder"
    /\ result.error = ""
    /\ orderObjs[result.ret].status = "Filled"
    /\ \E b \in (DOMAIN users) \ {result.userId} : positions[b] # <<>>

\* a tick has filled one user's pending order and liquidated another user
TickServesBoth ==
    /\ Ticked
    /\ \E a \in DOMAIN users, b \in DOMAIN users :
          /\ a # b
          /\ \E i \in Emitted("orderFilled") :
                /\ emitted[i].userId = a
                /\ orderObjs[emitted[i].id].orderType = "Limit"
          /\ \E i \in Emitted("liquidation") : emitted[i].userId = b

\* one user holds a pending order while another user is in the engine
OtherHoldsPending ==
    \E a \in DOMAIN users, b \in DOMAIN users :
        a # b /\ orders[b] # <<>> /\ positions[a] # <<>>

\* ------------------------------------------------------------------------
\* C39: a session authenticated as a user keeps that user id for as long as
\* it is connected, whatever message it sends, a second auth included.
\* ------------------------------------------------------------------------
KeepsUser(c) ==
    (c \in DOMAIN clients' /\ clients[c].authenticated)
        => clients'[c].userId = clients[c].userId

C39_SessionKeepsUser == [][\A c \in DOMAIN clients : KeepsUser(c)]_vars

\* what holds: only the completion of an auth writes a session's user id
UserSetByAuthOnly ==
    [][result'.op # "auth" =>
          \A c \in (DOMAIN clients) \cap (DOMAIN clients') :
              /\ clients'[c].userId = clients[c].userId
              /\ clients'[c].authenticated = clients[c].authenticated]_vars

\* ------------------------------------------------------------------------
\* C40: from a call of disconnect() until connect() is called from outside,
\* the feed service holds no socket, has no reconnect timer pending and is
\* not connected, also after the 'close' event of the socket it closed; and
\* in a run without disconnect() the reconnect counter never exceeds
\* maxReconnectAttempts.
\* ------------------------------------------------------------------------
StaysDisconnected ==
    bybit.stopped =>
        /\ bybit.timers = {}
        /\ bybit.ws = 0
        /\ ~bybit.isConnected
        /\ \A id \in DOMAIN bybit.sockets : bybit.sockets[id] = "closing"

ReconnectsBounded ==
    ~bybit.everStopped => bybit.reconnectAttempts <= maxReconnectAttempts

C40_FeedStaysDisconnected ==
    /\ []StaysDisconnected
    /\ []ReconnectsBounded

\* what holds: the counter is bounded in a run without disconnect(), and it
\* takes the 'close' event of a socket to schedule a reconnect after one
FeedReconnectsBounded ==
    /\ []ReconnectsBounded
    /\ [][(bybit.stopped /\ StaysDisconnected /\ ~StaysDisconnected')
              => result'.op = "feedClosed"]_vars

\* the counter has reached maxReconnectAttempts and no timer is pending
ReconnectsExhausted ==
    /\ ~bybit.everStopped
    /\ bybit.reconnectAttempts = maxReconnectAttempts
    /\ bybit.sockets = <<>>
    /\ bybit.timers = {}

\* the service is connected again after disconnect(), with no call of
\* connect() from outside
FeedBackAfterDisconnect == bybit.stopped /\ bybit.isConnected

====
